---- MODULE Spec2Model ----
(***************************************************************************)
(* Model of the job aggregation pipeline of Agragrati (src/job_search.py): *)
(* the skill extractor, the two source adapters, the sample generator, the *)
(* aggregator search_jobs and the normaliser _clean_job_data; of the batch *)
(* of cover letters (src/cover_letter.py); and of the interview session of *)
(* src/interview_training.py, one step per run of the page's script.       *)
(*                                                                         *)
(* Text is a sequence of atoms (one-character strings where the code looks *)
(* at characters, whole words in fixed templates).  Python's None is the   *)
(* reserved text NONE.  A DataFrame is a record of its column names, its   *)
(* rows (functions from column name to cell) and its row index labels.     *)
(***************************************************************************)
EXTENDS Integers, Sequences, FiniteSets, TLC

VARIABLES
    rapidapi_key,     \* self.rapidapi_key, read once at construction
    adzuna_app_id,    \* self.adzuna_app_id
    adzuna_app_key,   \* self.adzuna_app_key
    pc,               \* "idle" or "returned": position of the caller
    call,             \* the arguments of the last public call
    result,           \* what the last public call returned
    http_log,         \* the HTTP GET requests issued during the call, in order
    llm_log,          \* the text-completion requests issued during the call
    logs,             \* the messages given to safe_warning / safe_error, in order
    handed,           \* the list handed to pd.DataFrame / the normaliser, or the list an
                      \* adapter called on its own returned
    sampled,          \* the list returned by _generate_sample_jobs (<<>> if not invoked)
    delegated,        \* the calls of search_jobs made by search_jobs_by_resume, in order
    all_chats,        \* st.session_state.all_chats: the chats in insertion order
    current_chat_id,  \* st.session_state.current_chat_id
    interview_started,\* st.session_state.interview_started
    now,              \* datetime.now(), in whole seconds
    run,              \* "rerun": st.rerun() was called and the script runs again at once;
                      \* "listening": the same, from the end of a listen cycle;
                      \* "waiting": the script ran to its end and the page waits
    heard             \* the outcome of the listen attempt of the last run, "none" if
                      \* the last run did not listen

\* the session state of the interview page
session == <<all_chats, current_chat_id, interview_started, now, run, heard>>

vars == <<rapidapi_key, adzuna_app_id, adzuna_app_key, pc, call, result,
          http_log, llm_log, logs, handed, sampled, delegated, session>>

----------------------------------------------------------------------------
(* Bounds of the model *)

MaxCount == 2        \* results_wanted ranges over 1..MaxCount
MaxResp == 2         \* a provider answers with at most MaxResp records
MaxDraw == 3         \* joint outcomes of the random calls explored per sample record
MaxPrefix == 3       \* free characters at the head of a completion response
MaxTail == 16        \* further ",a" tokens at the end of a completion response
MaxFrame == 3        \* rows of a frame given directly to the normaliser
BigCount == 11       \* a results_wanted above the cap of 10 records asked of a provider

----------------------------------------------------------------------------
(* Python values *)

NONE == <<"<None>">>

\* bool(v) of an Optional[str]
Truthy(v) == v # NONE /\ v # <<>>

Min(a, b) == IF a < b THEN a ELSE b

\* str.strip(): the characters str.strip() removes that the model's alphabet has
Whitespace == {" ", "\n"}

RECURSIVE LStrip(_, _)
LStrip(s, chars) ==
    IF s # <<>> /\ Head(s) \in chars THEN LStrip(Tail(s), chars) ELSE s

RECURSIVE RStrip(_, _)
RStrip(s, chars) ==
    IF s # <<>> /\ s[Len(s)] \in chars THEN RStrip(SubSeq(s, 1, Len(s) - 1), chars) ELSE s

Strip(s, chars) == RStrip(LStrip(s, chars), chars)

\* str.split(sep) for a one-character separator: always at least one piece
RECURSIVE SplitAcc(_, _, _)
SplitAcc(s, sep, cur) ==
    IF s = <<>> THEN <<cur>>
    ELSE IF Head(s) = sep THEN <<cur>> \o SplitAcc(Tail(s), sep, <<>>)
    ELSE SplitAcc(Tail(s), sep, Append(cur, Head(s)))

Split(s, sep) == SplitAcc(s, sep, <<>>)

\* code points of the characters the model orders
Ord(c) ==
    CASE c = " " -> 32
      [] c = "/" -> 47
      [] c = "0" -> 48 [] c = "1" -> 49 [] c = "2" -> 50 [] c = "3" -> 51
      [] c = "4" -> 52 [] c = "5" -> 53 [] c = "6" -> 54 [] c = "7" -> 55
      [] c = "8" -> 56 [] c = "9" -> 57
      [] c = "A" -> 65 [] c = "N" -> 78
      [] c = "a" -> 97 [] c = "d" -> 100 [] c = "g" -> 103 [] c = "o" -> 111
      [] c = "s" -> 115 [] c = "y" -> 121

\* s < t for Python strings: lexicographic by code point
RECURSIVE StrLess(_, _)
StrLess(s, t) ==
    IF t = <<>> THEN FALSE
    ELSE IF s = <<>> THEN TRUE
    ELSE IF Head(s) = Head(t) THEN StrLess(Tail(s), Tail(t))
    ELSE Ord(Head(s)) < Ord(Head(t))

DigitChars == <<"0", "1", "2", "3", "4", "5", "6", "7", "8", "9">>

\* str(n) for n >= 0
RECURSIVE IntStr(_)
IntStr(n) ==
    IF n < 10 THEN <<DigitChars[n + 1]>>
    ELSE IntStr(n \div 10) \o <<DigitChars[(n % 10) + 1]>>

\* f"{n:,}" for n >= 0: decimal digits with a comma every three digits
RECURSIVE Thousands(_)
Thousands(n) ==
    IF n < 1000 THEN IntStr(n)
    ELSE LET low == n % 1000
             pad == IF low < 10 THEN <<"0", "0">> ELSE IF low < 100 THEN <<"0">> ELSE <<>>
         IN Thousands(n \div 1000) \o <<",">> \o pad \o IntStr(low)

----------------------------------------------------------------------------
(* DataFrames *)

\* the keys of the dicts the adapters and the sample generator build
JobKeys == <<"Job Title", "Company", "Location", "Job Type", "Salary",
             "Date Posted", "Apply Link", "Source">>

Range(s) == {s[i] : i \in 1..Len(s)}

\* pd.DataFrame(): no columns, no rows
EmptyFrame == [columns |-> <<>>, rows |-> <<>>, index |-> <<>>]

\* pd.DataFrame(all_jobs) for a non-empty list of dicts with the same keys
Frame(all_jobs) ==
    [columns |-> JobKeys, rows |-> all_jobs, index |-> [i \in 1..Len(all_jobs) |-> i - 1]]

SelectSeq2(s, keep) ==
    LET F[i \in 0..Len(s)] ==
            IF i = 0 THEN <<>>
            ELSE IF i \in keep THEN Append(F[i - 1], s[i]) ELSE F[i - 1]
    IN F[Len(s)]

\* the columns of a frame
HasCol(df, c) == c \in Range(df.columns)

\* jobs_df[c] = values, one cell for each row: a new column goes last
SetCol(df, c, values) ==
    [df EXCEPT
        !.columns = IF c \in Range(df.columns) THEN df.columns ELSE Append(df.columns, c),
        !.rows = [i \in 1..Len(df.rows) |->
                    [k \in DOMAIN df.rows[i] \cup {c} |->
                        IF k = c THEN values[i] ELSE df.rows[i][k]]]]

----------------------------------------------------------------------------
(* The normaliser, JobSearcher._clean_job_data *)

\* display_columns: old column name -> display name, in the dict's order
DisplayOld == <<"title", "company", "location", "job_type", "salary",
                "date_posted", "job_url", "site">>
DisplayNew == JobKeys

NewName(c) ==
    IF c \in Range(DisplayOld)
    THEN DisplayNew[CHOOSE i \in 1..Len(DisplayOld) : DisplayOld[i] = c]
    ELSE c

\* pd.isna of a numeric cell
NAN == -1

\* JobSearcher._format_salary(row): min_amount / max_amount are numbers >= 0 or NAN
format_salary(row) ==
    LET min_amount == row["min_amount"]
        max_amount == row["max_amount"]
        interval == IF "interval" \in DOMAIN row THEN row["interval"] ELSE <<"yearly">>
    IN  IF min_amount = NAN /\ max_amount = NAN THEN <<"Not specified">>
        ELSE IF min_amount # NAN /\ max_amount # NAN
        THEN IF min_amount = max_amount
             THEN <<"$">> \o Thousands(min_amount) \o <<" ">> \o interval
             ELSE <<"$">> \o Thousands(min_amount) \o <<" - $">> \o Thousands(max_amount)
                      \o <<" ">> \o interval
        ELSE IF min_amount # NAN
        THEN <<"$">> \o Thousands(min_amount) \o <<"+ ">> \o interval
        ELSE <<"Up to $">> \o Thousands(max_amount) \o <<" ">> \o interval

CityState(row) == Strip(row["city"] \o <<",", " ">> \o row["state"], {",", " "})

\* lines 385-389: the salary column
WithSalary(df) ==
    IF HasCol(df, "Salary") THEN df
    ELSE IF HasCol(df, "min_amount") /\ HasCol(df, "max_amount")
    THEN SetCol(df, "salary", [i \in 1..Len(df.rows) |-> format_salary(df.rows[i])])
    ELSE SetCol(df, "salary", [i \in 1..Len(df.rows) |-> <<"Not specified">>])

\* lines 392-396: the location column
WithLocation(df) ==
    IF HasCol(df, "city") /\ HasCol(df, "state")
    THEN SetCol(df, "location", [i \in 1..Len(df.rows) |-> CityState(df.rows[i])])
    ELSE df

\* lines 399-405: rename the old column names that are present
Renamed(df) ==
    [df EXCEPT
        !.columns = [i \in 1..Len(df.columns) |-> NewName(df.columns[i])],
        !.rows = [i \in 1..Len(df.rows) |->
                    [k \in {NewName(c) : c \in DOMAIN df.rows[i]} |->
                        df.rows[i][CHOOSE c \in DOMAIN df.rows[i] : NewName(c) = k]]]]

\* final_columns taken from the old names, display_columns.keys()
SelectedByOldName(df) ==
    LET final_columns == SelectSeq2(DisplayOld, {i \in 1..Len(DisplayOld) : HasCol(df, DisplayOld[i])})
    IN  [df EXCEPT
            !.columns = final_columns,
            !.rows = [i \in 1..Len(df.rows) |->
                        [k \in Range(final_columns) |-> df.rows[i][k]]]]

\* lines 408-409: keep the display columns that exist, in display order
Selected(df) ==
    LET final_columns == SelectSeq2(DisplayNew, {i \in 1..Len(DisplayNew) : HasCol(df, DisplayNew[i])})
    IN  [df EXCEPT
            !.columns = final_columns,
            !.rows = [i \in 1..Len(df.rows) |->
                        [k \in Range(final_columns) |-> df.rows[i][k]]]]

\* drop_duplicates(subset=['Job Title', 'Company'], keep='last')
KeptLast(rows) ==
    {i \in 1..Len(rows) :
        \A j \in (i + 1)..Len(rows) :
            ~(rows[j]["Job Title"] = rows[i]["Job Title"] /\ rows[j]["Company"] = rows[i]["Company"])}

\* drop_duplicates(subset=['Job Title', 'Company']): the positions kept (keep='first')
KeptFirst(rows) ==
    {i \in 1..Len(rows) :
        \A j \in 1..(i - 1) :
            ~(rows[j]["Job Title"] = rows[i]["Job Title"] /\ rows[j]["Company"] = rows[i]["Company"])}

\* lines 412-413
Deduplicated(df) ==
    IF HasCol(df, "Job Title") /\ HasCol(df, "Company")
    THEN LET keep == KeptFirst(df.rows)
         IN  [df EXCEPT !.rows = SelectSeq2(df.rows, keep), !.index = SelectSeq2(df.index, keep)]
    ELSE df

\* a sorts strictly before b under sort_values(ascending=False): missing values last
SortsBefore(a, b) ==
    IF a = NONE THEN FALSE ELSE IF b = NONE THEN TRUE ELSE StrLess(b, a)

\* the orders sort_values('Date Posted', ascending=False) can leave the rows in: the
\* default sort kind is not stable, so rows with equal keys come in any order
RECURSIVE DescOrders(_, _)
DescOrders(rows, left) ==
    IF left = {} THEN {<<>>}
    ELSE UNION {
            {<<i>> \o rest : rest \in DescOrders(rows, left \ {i})} :
            i \in {j \in left :
                    \A k \in left : ~SortsBefore(rows[k]["Date Posted"], rows[j]["Date Posted"])}}

\* lines 416-417
Sorted(df) ==
    IF HasCol(df, "Date Posted")
    THEN {[df EXCEPT !.rows = [i \in 1..Len(o) |-> df.rows[o[i]]],
                     !.index = [i \in 1..Len(o) |-> df.index[o[i]]]] :
            o \in DescOrders(df.rows, 1..Len(df.rows))}
    ELSE {df}

\* the index labels left as they are
KeepIndex(df) == df

\* line 419: reset_index(drop=True)
ResetIndex(df) == [df EXCEPT !.index = [i \in 1..Len(df.rows) |-> i - 1]]

\* What can go wrong inside the try of _clean_job_data: an exception raised inside
\* drop_duplicates or inside sort_values (memory exhausted, a cell pandas cannot hash or
\* compare)
CleanFaults == {"none", "dedup", "sort"}

\* _clean_job_data(jobs_df): the frames it can return, each with the messages logged.
\* On an exception it returns jobs_df as rebound so far (lines 421-423).
clean_job_data(jobs_df, fault) ==
    LET selected == Selected(Renamed(WithLocation(WithSalary(jobs_df))))
        deduped == Deduplicated(selected)
    IN  IF fault = "dedup" /\ HasCol(selected, "Job Title") /\ HasCol(selected, "Company")
        THEN {[frame |-> selected, logs |-> <<"Error cleaning job data">>]}
        ELSE IF fault = "sort" /\ HasCol(deduped, "Date Posted")
        THEN {[frame |-> deduped, logs |-> <<"Error cleaning job data">>]}
        ELSE {[frame |-> ResetIndex(s), logs |-> <<>>] : s \in Sorted(deduped)}

----------------------------------------------------------------------------
(* The sample generator, JobSearcher._generate_sample_jobs *)

companies == <<"Google", "Microsoft", "Amazon", "Apple", "Meta", "Netflix", "Tesla",
               "Spotify", "Airbnb", "Uber", "LinkedIn", "Twitter", "Adobe", "Salesforce",
               "Oracle", "IBM", "Intel", "NVIDIA", "Cisco", "VMware">>

\* company.lower()
companies_lower == <<"google", "microsoft", "amazon", "apple", "meta", "netflix", "tesla",
                     "spotify", "airbnb", "uber", "linkedin", "twitter", "adobe", "salesforce",
                     "oracle", "ibm", "intel", "nvidia", "cisco", "vmware">>

job_titles(search_term) ==
    << <<"Senior ">> \o search_term,
       <<"Junior ">> \o search_term,
       search_term \o <<" Specialist">>,
       <<"Lead ">> \o search_term,
       search_term \o <<" Manager">>,
       search_term \o <<" Analyst">>,
       search_term \o <<" Developer">>,
       search_term \o <<" Engineer">>,
       <<"Principal ">> \o search_term,
       search_term \o <<" Consultant">> >>

job_types == <<"Full-time", "Part-time", "Contract", "Internship">>
sources == <<"LinkedIn", "Indeed", "ZipRecruiter", "Company Website">>

SAMPLE_LIMIT == 20          \* min(results_wanted, 20)
BASE_SALARY_MIN == 60000    \* random.randint(60000, 150000)
SALARY_SPAN == 20000        \* base_salary + 20000

\* The joint outcome of the random calls made for one sample record.  Draw d stands for
\* one outcome of (company, title, job type, base salary, days, source): draws 2k-1 and
\* 2k choose the same company and title and differ in the days.
Draw(d) ==
    [company |-> (((d - 1) \div 2) % Len(companies)) + 1,
     title |-> (((d - 1) \div 2) % 10) + 1,
     job_type |-> ((d - 1) % Len(job_types)) + 1,
     base_salary |-> BASE_SALARY_MIN + (d - 1) * 1000,
     days |-> ((d - 1) % 2) + 1,
     source |-> ((d - 1) % Len(sources)) + 1]

\* the record built in iteration i (0-based) of the loop, lines 341-363
SampleJob(search_term, location, job_type, i, draw) ==
    [k \in Range(JobKeys) |->
        CASE k = "Job Title" -> job_titles(search_term)[draw.title]
          [] k = "Company" -> <<companies[draw.company]>>
          [] k = "Location" -> location
          [] k = "Job Type" ->
                IF Truthy(job_type) /\ job_type # <<"Any">>
                THEN job_type ELSE <<job_types[draw.job_type]>>
          [] k = "Salary" ->
                <<"$">> \o Thousands(draw.base_salary) \o <<" - $">>
                    \o Thousands(draw.base_salary + SALARY_SPAN) \o <<" yearly">>
          [] k = "Date Posted" ->
                IntStr(draw.days) \o <<" ", "d", "a", "y", "s", " ", "a", "g", "o">>
          [] k = "Apply Link" ->
                <<"https://example.com/jobs/", companies_lower[draw.company], "-">> \o IntStr(i)
          [] k = "Source" -> <<sources[draw.source]>>]

\* one record for each unit of results_wanted, with no limit
SampleSizeUncapped(results_wanted) == IF results_wanted < 0 THEN 0 ELSE results_wanted

\* the number of records generated, line 340
SampleSize(results_wanted) == IF results_wanted < 0 THEN 0 ELSE Min(results_wanted, SAMPLE_LIMIT)

\* _generate_sample_jobs: draws[i] is the outcome of the random calls of iteration i
generate_sample_jobs(search_term, location, results_wanted, job_type, draws) ==
    [i \in 1..SampleSize(results_wanted) |->
        SampleJob(search_term, location, job_type, i - 1, Draw(draws[i]))]

\* the outcomes of the random calls the model explores for n records: every sequence
\* of draws for a small n, the same draw in every iteration for a large one
DrawSeqs(n) ==
    IF n <= MaxCount THEN [1..n -> 1..MaxDraw]
    ELSE {[i \in 1..n |-> d] : d \in 1..MaxDraw}

----------------------------------------------------------------------------
(* The source adapters *)

ABSENT == <<"<absent>">>      \* a key the payload does not have

\* dict.get(key, default)
Get(job, key, default) == IF job[key] = ABSENT THEN default ELSE job[key]

\* f"{v}"
Fmt(v) == IF v = NONE THEN <<"N", "o", "n", "e">> ELSE v

\* str.lower() on the atoms the model uses
LowerAtom(a) ==
    CASE a = "U" -> "u" [] a = "K" -> "k" [] a = "X" -> "x"
      [] a = "Any" -> "any" [] a = "ANY" -> "any"
      [] a = "Full-time" -> "full-time" [] a = "Part-time" -> "part-time"
      [] a = "Contract" -> "contract" [] a = "Internship" -> "internship"
      [] a = "INTERNSHIP" -> "internship" [] a = "FULL-TIME" -> "full-time"
      [] a = "Temporary" -> "temporary"
      [] OTHER -> a

Lower(s) == [i \in 1..Len(s) |-> LowerAtom(s[i])]

\* sub in s
Contains(sub, s) ==
    \E i \in 1..(Len(s) - Len(sub) + 1) : SubSeq(s, i, i + Len(sub) - 1) = sub

JSEARCH_CAP == 10           \* min(results_wanted, 10), lines 128 and 134
ADZUNA_PAGE_CAP == 20       \* min(results_wanted, 20), line 233

\* the table looked up with job_type as given, without lower()
EmploymentTypeExact(job_type) ==
    IF Truthy(job_type) /\ job_type # <<"any">>
    THEN CASE job_type = <<"full-time">> -> <<"FULLTIME">>
           [] job_type = <<"part-time">> -> <<"PARTTIME">>
           [] job_type = <<"contract">> -> <<"CONTRACTOR">>
           [] job_type = <<"internship">> -> <<"INTERN">>
           [] OTHER -> NONE
    ELSE NONE

\* employment_types / job_type_mapping: the filter value, or NONE when no filter is sent
EmploymentType(job_type) ==
    IF Truthy(job_type) /\ Lower(job_type) # <<"any">>
    THEN CASE Lower(job_type) = <<"full-time">> -> <<"FULLTIME">>
           [] Lower(job_type) = <<"part-time">> -> <<"PARTTIME">>
           [] Lower(job_type) = <<"contract">> -> <<"CONTRACTOR">>
           [] Lower(job_type) = <<"internship">> -> <<"INTERN">>
           [] OTHER -> NONE
    ELSE NONE

AdzunaCategory(job_type) ==
    IF Truthy(job_type) /\ Lower(job_type) # <<"any">>
    THEN CASE Lower(job_type) = <<"full-time">> -> <<"permanent">>
           [] Lower(job_type) = <<"part-time">> -> <<"part_time">>
           [] Lower(job_type) = <<"contract">> -> <<"contract">>
           [] Lower(job_type) = <<"internship">> -> <<"graduate">>
           [] OTHER -> NONE
    ELSE NONE

\* the salary amounts of a payload: a number >= 0, or NO_AMOUNT for a missing or null one
NO_AMOUNT == -1

\* lines 286-293 and 303-310: the amounts are tested for truth, so 0 counts as missing
SalaryText(min_salary, max_salary, suffix) ==
    LET has_min == min_salary # NO_AMOUNT /\ min_salary # 0
        has_max == max_salary # NO_AMOUNT /\ max_salary # 0
    IN  IF has_min /\ has_max
        THEN <<"$">> \o Thousands(min_salary) \o <<" - $">> \o Thousands(max_salary) \o suffix
        ELSE IF has_min THEN <<"$">> \o Thousands(min_salary) \o <<"+">> \o suffix
        ELSE IF has_max THEN <<"Up to $">> \o Thousands(max_salary) \o suffix
        ELSE <<"Salary not specified">>

format_salary_jsearch(job) ==
    SalaryText(job.job_min_salary, job.job_max_salary,
               <<" per ">> \o Fmt(Get(job, "job_salary_period", <<"year">>)))

format_salary_adzuna(job) == SalaryText(job.salary_min, job.salary_max, <<" yearly">>)

\* lines 195-204: one JSearch payload record as a job dict
JSearchJob(job) ==
    [k \in Range(JobKeys) |->
        CASE k = "Job Title" -> Get(job, "job_title", <<"N", "/", "A">>)
          [] k = "Company" -> Get(job, "employer_name", <<"N", "/", "A">>)
          [] k = "Location" ->
                Strip(Fmt(Get(job, "job_city", <<>>)) \o <<",", " ">>
                        \o Fmt(Get(job, "job_state", <<>>)), {",", " "})
          [] k = "Job Type" -> Get(job, "job_employment_type", <<"N", "/", "A">>)
          [] k = "Salary" -> format_salary_jsearch(job)
          [] k = "Date Posted" -> Get(job, "job_posted_at_datetime_utc", <<"N", "/", "A">>)
          [] k = "Apply Link" -> Get(job, "job_apply_link", <<"N", "/", "A">>)
          [] k = "Source" -> <<"JSearch API">>]

\* lines 258-267: one Adzuna payload record as a job dict.  company and location are the
\* display_name of the nested object, ABSENT when the object or the name is missing.
AdzunaJob(job) ==
    [k \in Range(JobKeys) |->
        CASE k = "Job Title" -> Get(job, "title", <<"N", "/", "A">>)
          [] k = "Company" -> Get(job, "company", <<"N", "/", "A">>)
          [] k = "Location" -> Fmt(Get(job, "location", <<"N", "/", "A">>))
          [] k = "Job Type" -> Get(job, "contract_type", <<"N", "/", "A">>)
          [] k = "Salary" -> format_salary_adzuna(job)
          [] k = "Date Posted" -> Get(job, "created", <<"N", "/", "A">>)
          [] k = "Apply Link" -> Get(job, "redirect_url", <<"N", "/", "A">>)
          [] k = "Source" -> <<"Adzuna API">>]

Prefix(s, n) == SubSeq(s, 1, Min(Len(s), IF n < 0 THEN Len(s) + n ELSE n))

\* data["data"][:results_wanted], line 194
Truncated(s, n) == Prefix(s, n)

\* A provider's answer to one GET: kind "ok" is status 200 with `data` the records of
\* the JSON body, "status" a non-200 status, "exception" a network error raised by
\* requests.get and "timeout" the 10 s timeout, which requests raises as an exception.
NotCalled == [kind |-> "not called", data |-> <<>>]

\* _search_jsearch_api: the jobs returned, the request issued (with the results_wanted
\* argument of the call that issued it) and the messages logged
search_jsearch_api(key, search_term, location, results_wanted, job_type, resp) ==
    [request |->
        [provider |-> "jsearch",
         url |-> <<"https://jsearch.p.rapidapi.com/search">>,
         credentials |-> <<key>>,
         query |-> search_term \o <<" ">> \o location,
         size |-> NONE,
         results_wanted |-> results_wanted,
         job_filter |-> EmploymentType(job_type)],
     jobs |->
        IF resp.kind = "ok"
        THEN LET data == Truncated(resp.data, results_wanted)
             IN  [i \in 1..Len(data) |-> JSearchJob(data[i])]
        ELSE <<>>,
     logs |->
        CASE resp.kind = "ok" -> <<>>
          [] resp.kind = "status" -> <<"JSearch API returned status code">>
          [] OTHER -> <<"JSearch API error">>]

\* the country code of the Adzuna URL, lines 220-226
AdzunaCountry(location) ==
    IF Contains(<<"u", "k">>, Lower(location)) \/ Contains(<<"united kingdom">>, Lower(location))
    THEN "gb"
    ELSE IF Contains(<<"canada">>, Lower(location)) THEN "ca"
    ELSE IF Contains(<<"australia">>, Lower(location)) THEN "au"
    ELSE "us"

\* _search_adzuna_api: a null company or location object makes .get raise inside the
\* loop, which the adapter's except turns into an empty list
search_adzuna_api(app_id, app_key, search_term, location, results_wanted, job_type, resp) ==
    LET raises == resp.kind = "ok" /\ \E i \in 1..Len(resp.data) :
                        resp.data[i].company = NONE \/ resp.data[i].location = NONE
    IN
    [request |->
        [provider |-> "adzuna",
         url |-> <<"https://api.adzuna.com/v1/api/jobs/", AdzunaCountry(location), "/search/1">>,
         credentials |-> <<app_id, app_key>>,
         query |-> search_term,
         size |-> IntStr(Min(results_wanted, ADZUNA_PAGE_CAP)),
         results_wanted |-> results_wanted,
         job_filter |-> AdzunaCategory(job_type)],
     jobs |->
        IF resp.kind = "ok" /\ ~raises
        THEN [i \in 1..Len(resp.data) |-> AdzunaJob(resp.data[i])]
        ELSE <<>>,
     logs |->
        CASE resp.kind = "ok" /\ ~raises -> <<>>
          [] resp.kind = "status" -> <<"Adzuna API returned status code">>
          [] OTHER -> <<"Adzuna API error">>]

----------------------------------------------------------------------------
(* The skill extractor, JobSearcher.extract_skills_from_resume *)

SKILL_LIMIT == 15           \* skills[:15]

\* the pieces of the response that are not blank, each stripped of whitespace, line 96
RECURSIVE StrippedPieces(_)
StrippedPieces(pieces) ==
    IF pieces = <<>> THEN <<>>
    ELSE LET skill == Strip(Head(pieces), Whitespace)
         IN  IF skill # <<>> THEN <<skill>> \o StrippedPieces(Tail(pieces))
             ELSE StrippedPieces(Tail(pieces))

\* the list with no limit on its length
Unlimited(skills) == skills

\* skills[:15], line 97
Limited(skills) == Prefix(skills, SKILL_LIMIT)

\* lines 92-98: the list parsed from the content of the completion
ParseSkills(skills_text) ==
    IF Truthy(skills_text)
    THEN Limited(StrippedPieces(Split(Strip(skills_text, Whitespace), ",")))
    ELSE <<>>

\* lines 66-90: the completion request made for a resume text; nothing guards the call
CompletionRequests(resume_text) == <<[prompt |-> resume_text]>>

\* extract_skills_from_resume: completion.kind is "ok" with the content returned (NONE
\* for a null content) or "raise" when the call raises (lines 100-102)
extract_skills_from_resume(resume_text, completion) ==
    [requests |-> CompletionRequests(resume_text),
     skills |-> IF completion.kind = "ok" THEN ParseSkills(completion.content) ELSE <<>>,
     logs |-> IF completion.kind = "ok" THEN <<>> ELSE <<"Error extracting skills">>]

----------------------------------------------------------------------------
(* The recommendations, JobSearcher.get_job_recommendations *)

REC_LIMIT == 5              \* recommendations[:5]

\* the bullet character U+2022, one atom of a text
Bullet == "<bullet>"

\* the prefixes of rec.startswith(('1.', '2.', '3.', '4.', '5.'))
NumberPrefixes == {<<"1", ".">>, <<"2", ".">>, <<"3", ".">>, <<"4", ".">>, <<"5", ".">>}

\* str.startswith(p)
StartsWith(s, p) == Len(s) >= Len(p) /\ SubSeq(s, 1, Len(p)) = p

\* the condition of the comprehension of line 484, on the line as split
IsRecommendation(rec) ==
    /\ Strip(rec, Whitespace) # <<>>
    /\ \/ Bullet \in Range(rec)
       \/ "-" \in Range(rec)
       \/ \E p \in NumberPrefixes : StartsWith(rec, p)

\* line 484: the lines that pass the condition, each stripped of whitespace
RECURSIVE RecommendationLines(_)
RecommendationLines(lines) ==
    IF lines = <<>> THEN <<>>
    ELSE IF IsRecommendation(Head(lines))
         THEN <<Strip(Head(lines), Whitespace)>> \o RecommendationLines(Tail(lines))
         ELSE RecommendationLines(Tail(lines))

\* the list with no limit on its length
AllRecommendations(recommendations) == recommendations

\* recommendations[:5], line 485
TopRecommendations(recommendations) == Prefix(recommendations, REC_LIMIT)

\* lines 480-486: the list parsed from the content of the completion
ParseRecommendations(recommendations_text) ==
    IF Truthy(recommendations_text)
    THEN TopRecommendations(
             RecommendationLines(Split(Strip(recommendations_text, Whitespace), "\n")))
    ELSE <<>>

\* lines 453-478: the completion request; the target role is in the prompt when given
RecommendationRequests(resume_text, target_role) ==
    <<[prompt |-> resume_text,
       target_role |-> IF Truthy(target_role) THEN target_role ELSE <<>>]>>

\* get_job_recommendations: completion.kind is "ok" with the content returned (NONE for
\* a null content) or "raise" when the call raises (lines 488-490)
get_job_recommendations(resume_text, target_role, completion) ==
    [requests |-> RecommendationRequests(resume_text, target_role),
     recommendations |-> IF completion.kind = "ok"
                         THEN ParseRecommendations(completion.content) ELSE <<>>,
     logs |-> IF completion.kind = "ok" THEN <<>> ELSE <<"Error generating recommendations">>]

----------------------------------------------------------------------------
(* The aggregator, JobSearcher.search_jobs *)

\* line 127: if self.rapidapi_key
JSearchConfigured(key) == Truthy(key)

\* line 132, first part: self.adzuna_app_id and self.adzuna_app_key
AdzunaConfigured(app_id, app_key) == Truthy(app_id) /\ Truthy(app_key)

\* Adzuna asked only to add to what JSearch returned
AdzunaAfterSuccess(app_id, app_key, all_jobs, results_wanted) ==
    AdzunaConfigured(app_id, app_key) /\ all_jobs # <<>> /\ Len(all_jobs) < results_wanted

\* line 132
AdzunaWanted(app_id, app_key, all_jobs, results_wanted) ==
    AdzunaConfigured(app_id, app_key) /\ Len(all_jobs) < results_wanted

\* the new records put before those already collected
Prepended(all_jobs, more) == more \o all_jobs

\* all_jobs.extend(more), lines 129, 135 and 141
Extended(all_jobs, more) == all_jobs \o more

\* line 128: the number of records asked of JSearch
JSearchBudget(results_wanted) == Min(results_wanted, JSEARCH_CAP)

\* Adzuna asked for the whole count whatever has been collected
AdzunaBudgetWhole(results_wanted, all_jobs) == Min(results_wanted, JSEARCH_CAP)

\* lines 133-134: remaining_results, and the number of records asked of Adzuna
AdzunaBudget(results_wanted, all_jobs) == Min(results_wanted - Len(all_jobs), JSEARCH_CAP)

\* the warning only when none of the three credentials is set
NoCredentialAtAll(key, app_id, app_key) == ~Truthy(key) /\ ~Truthy(app_id) /\ ~Truthy(app_key)

\* line 138: not self.rapidapi_key and not (self.adzuna_app_id and self.adzuna_app_key)
NoKeysConfigured(key, app_id, app_key) == ~Truthy(key) /\ ~(Truthy(app_id) /\ Truthy(app_key))

\* the sample generator never invoked
NeverFallback(all_jobs) == FALSE

\* the sample generator invoked after every search
AlwaysFallback(all_jobs) == TRUE

\* line 137: if not all_jobs
FallbackNeeded(all_jobs) == all_jobs = <<>>

\* a public call's return value: a frame, or an exception leaving the method
Returned(df) == [raised |-> FALSE, frame |-> df]

\* the handler letting the exception through
Propagated(df) == [raised |-> TRUE, frame |-> df]

\* lines 153-155: except Exception: safe_error(...); return pd.DataFrame()
Caught(df) == Returned(df)

\* What can go wrong in the body of search_jobs outside the adapters, which catch their
\* own exceptions: "frame" is an exception raised by pd.DataFrame(all_jobs) (line 148);
\* the others are the faults inside _clean_job_data.
Faults == CleanFaults \cup {"frame"}

\* safe_spinner, lines 21-32: the exception that leaves the with statement when its
\* body raises exc.  Under Streamlit the bare except yields a second time and contextlib
\* raises RuntimeError in place of exc.
SpinnerExit(exc, streamlit) == IF streamlit THEN "RuntimeError" ELSE exc

\* search_jobs: the outcomes of one call, given the answers of the providers (js, az),
\* the outcomes of the random calls (draws) and the fault
search_jobs(key, app_id, app_key, search_term, location, results_wanted, job_type, js, az, draws, fault, streamlit) ==
    LET js_called == JSearchConfigured(key)
        js_out == search_jsearch_api(key, search_term, location,
                                     JSearchBudget(results_wanted), job_type, js)
        jobs1 == IF js_called THEN js_out.jobs ELSE <<>>
        az_called == AdzunaWanted(app_id, app_key, jobs1, results_wanted)
        az_out == search_adzuna_api(app_id, app_key, search_term, location,
                                    AdzunaBudget(results_wanted, jobs1), job_type, az)
        jobs2 == IF az_called THEN Extended(jobs1, az_out.jobs) ELSE jobs1
        fallback == FallbackNeeded(jobs2)
        sample_jobs == IF fallback
                       THEN generate_sample_jobs(search_term, location, results_wanted,
                                                 job_type, draws)
                       ELSE <<>>
        all_jobs == Extended(jobs2, sample_jobs)
        requests == (IF js_called THEN <<js_out.request>> ELSE <<>>)
                        \o (IF az_called THEN <<az_out.request>> ELSE <<>>)
        adapter_logs == (IF js_called THEN js_out.logs ELSE <<>>)
                            \o (IF az_called THEN az_out.logs ELSE <<>>)
                            \o (IF fallback /\ NoKeysConfigured(key, app_id, app_key)
                                THEN <<"No API keys configured">> ELSE <<>>)
        base == [http_log |-> requests, sampled |-> sample_jobs, handed |-> all_jobs,
                 logs |-> adapter_logs, result |-> Returned(EmptyFrame)]
    IN  IF all_jobs = <<>>
        THEN {[base EXCEPT !.logs = adapter_logs \o <<"No jobs found">>]}
        ELSE IF fault = "frame"
        THEN {[base EXCEPT
                !.logs = adapter_logs \o <<"Error searching for jobs", SpinnerExit("MemoryError", streamlit)>>,
                !.result = Caught(EmptyFrame)]}
        ELSE {[base EXCEPT
                !.logs = adapter_logs \o c.logs,
                !.result = Returned(c.frame)] :
              c \in clean_job_data(Frame(all_jobs), fault)}

----------------------------------------------------------------------------
(* The inputs and the environment's answers the model explores *)

SeqsUpTo(S, n) == UNION {[1..k -> S] : k \in 0..n}

\* search terms: blank and not blank (no code tests the term, so the empty string fares
\* as the blank one does)
Terms == {<<" ">>, <<"d">>}
Locations == {<<"U", "K">>}
Counts == 1..MaxCount
JobTypeArgs == {NONE, <<"Internship">>}

\* os.getenv of the three credentials: unset, the placeholder of the .env template, a key
RapidKeys == {NONE, <<"your_rapidapi_key_here">>, <<"rk-live">>}
AdzunaCredentials ==
    {<<NONE, NONE>>,
     <<(<<"your_adzuna_app_id_here">>), (<<"your_adzuna_app_key_here">>)>>,
     <<(<<"az-id">>), NONE>>,
     <<(<<"az-id">>), (<<"az-key">>)>>}

\* JSearch payload records: the second repeats the first's title and employer with
\* another date and with the optional keys missing
JSearchPayloads ==
    {[job_title |-> <<"t1">>, employer_name |-> <<"c1">>, job_city |-> <<"X">>,
      job_state |-> <<"Y">>, job_employment_type |-> <<"FULLTIME">>,
      job_min_salary |-> 80000, job_max_salary |-> 120000, job_salary_period |-> <<"year">>,
      job_posted_at_datetime_utc |-> <<"2", "0", "2", "4">>, job_apply_link |-> <<"u1">>],
     [job_title |-> <<"t1">>, employer_name |-> <<"c1">>, job_city |-> ABSENT,
      job_state |-> ABSENT, job_employment_type |-> ABSENT,
      job_min_salary |-> NO_AMOUNT, job_max_salary |-> NO_AMOUNT, job_salary_period |-> ABSENT,
      job_posted_at_datetime_utc |-> <<"2", "0", "2", "5">>, job_apply_link |-> <<"u2">>]}

\* Adzuna payload records: the first has the title and company of the JSearch records,
\* the second is another posting
AdzunaPayloads ==
    {[title |-> <<"t1">>, company |-> <<"c1">>, location |-> <<"X">>,
      contract_type |-> <<"permanent">>, salary_min |-> 80000, salary_max |-> 120000,
      created |-> <<"2", "0", "2", "4">>, redirect_url |-> <<"v1">>],
     [title |-> <<"t2">>, company |-> <<"c1">>, location |-> ABSENT,
      contract_type |-> ABSENT, salary_min |-> NO_AMOUNT, salary_max |-> 120000,
      created |-> <<"2", "0", "2", "5">>, redirect_url |-> <<"v2">>]}

Failures == {[kind |-> k, data |-> <<>>] : k \in {"status", "exception", "timeout"}}

JSearchAnswers == {[kind |-> "ok", data |-> d] : d \in SeqsUpTo(JSearchPayloads, MaxResp)} \cup Failures
AdzunaAnswers == {[kind |-> "ok", data |-> d] : d \in SeqsUpTo(AdzunaPayloads, MaxResp)} \cup Failures

NoCall == [op |-> "none", search_term |-> <<>>, location |-> <<>>, results_wanted |-> 0,
           job_type |-> NONE, resume_text |-> <<>>,
           completion |-> [kind |-> "none", content |-> NONE], job |-> NONE,
           target_role |-> NONE, job_offers |-> <<>>]

----------------------------------------------------------------------------
(* The job search: construction, one call of search_jobs, the caller taking the result *)

Idle ==
    /\ pc = "idle"
    /\ call = NoCall
    /\ result = Returned(EmptyFrame)
    /\ http_log = <<>>
    /\ llm_log = <<>>
    /\ logs = <<>>
    /\ handed = <<>>
    /\ sampled = <<>>
    /\ delegated = <<>>
    /\ all_chats = <<>>
    /\ current_chat_id = NONE
    /\ interview_started = FALSE
    /\ now = 1
    /\ run = "rerun"
    /\ heard = "none"

\* JobSearcher.__init__: the credentials are read from the environment
Init ==
    /\ rapidapi_key \in RapidKeys
    /\ \E c \in AdzunaCredentials : adzuna_app_id = c[1] /\ adzuna_app_key = c[2]
    /\ Idle

\* search_jobs run on the given arguments: the providers' answers and the outcomes of
\* the random calls are chosen here, and the messages logged follow those in pre_logs
RunSearchJobs(search_term, location, results_wanted, job_type, fault, pre_logs) ==
    \E js \in IF JSearchConfigured(rapidapi_key) THEN JSearchAnswers ELSE {NotCalled} :
      LET jobs1 == IF JSearchConfigured(rapidapi_key)
                   THEN search_jsearch_api(rapidapi_key, search_term, location,
                            JSearchBudget(results_wanted), job_type, js).jobs
                   ELSE <<>>
          az_called == AdzunaWanted(adzuna_app_id, adzuna_app_key, jobs1, results_wanted)
      IN
      \E az \in IF az_called THEN AdzunaAnswers ELSE {NotCalled} :
        LET jobs2 == IF az_called
                     THEN Extended(jobs1, search_adzuna_api(adzuna_app_id, adzuna_app_key,
                            search_term, location,
                            AdzunaBudget(results_wanted, jobs1), job_type, az).jobs)
                     ELSE jobs1
        IN
        \E draws \in IF FallbackNeeded(jobs2) THEN DrawSeqs(SampleSize(results_wanted)) ELSE {<<>>},
           streamlit \in IF fault = "frame" THEN BOOLEAN ELSE {TRUE} :
          \E out \in search_jobs(rapidapi_key, adzuna_app_id, adzuna_app_key, search_term,
                                 location, results_wanted, job_type, js, az, draws, fault,
                                 streamlit) :
            /\ result' = out.result
            /\ http_log' = out.http_log
            /\ logs' = pre_logs \o out.logs
            /\ handed' = out.handed
            /\ sampled' = out.sampled

\* one call of search_jobs with arguments and faults drawn from the given sets
SearchJobsOver(terms, counts, job_type_args, faults) ==
    /\ pc = "idle"
    /\ \E search_term \in terms, location \in Locations, results_wanted \in counts,
          job_type \in job_type_args, fault \in faults :
        /\ call' = [NoCall EXCEPT !.op = "search_jobs",
                                  !.search_term = search_term,
                                  !.location = location,
                                  !.results_wanted = results_wanted,
                                  !.job_type = job_type]
        /\ RunSearchJobs(search_term, location, results_wanted, job_type, fault, <<>>)
    /\ pc' = "returned"
    /\ UNCHANGED <<session, rapidapi_key, adzuna_app_id, adzuna_app_key, delegated, llm_log>>

SearchJobs == SearchJobsOver(Terms, Counts, JobTypeArgs, Faults)

\* the caller has taken the result; nothing of the call is kept (src/app.py)
Return ==
    /\ pc = "returned"
    /\ pc' = "idle"
    /\ call' = NoCall
    /\ result' = Returned(EmptyFrame)
    /\ http_log' = <<>>
    /\ llm_log' = <<>>
    /\ logs' = <<>>
    /\ handed' = <<>>
    /\ sampled' = <<>>
    /\ delegated' = <<>>
    /\ UNCHANGED <<session, rapidapi_key, adzuna_app_id, adzuna_app_key>>

Next == SearchJobs \/ Return

Spec == Init /\ [][Next]_vars

----------------------------------------------------------------------------
(* The resume-driven search, JobSearcher.search_jobs_by_resume *)

MaxSkills == 6       \* a completion response names at most MaxSkills skills

TOP_SKILLS == 5      \* skills[:5]

\* sep.join(parts)
RECURSIVE Join(_, _)
Join(parts, sep) ==
    IF parts = <<>> THEN <<>>
    ELSE IF Len(parts) = 1 THEN parts[1]
    ELSE parts[1] \o sep \o Join(Tail(parts), sep)

\* every skill extracted used for the search term
AllSkills(skills) == skills

\* skills[:5], line 115
TopSkills(skills) == Prefix(skills, TOP_SKILLS)

\* line 115: the search term made of the top skills
ResumeSearchTerm(skills) == Join(TopSkills(skills), <<" OR ">>)

\* the name of the i-th skill of a completion response
SkillName(i) == <<"s">> \o IntStr(i)

\* the contents a completion may return for a resume: k skill names separated by
\* commas, for a few and for many skills, and a blank text
SkillLists ==
    {Join([i \in 1..k |-> SkillName(i)], <<",">>) : k \in {0, 1, 2, MaxSkills - 1, MaxSkills}}
        \cup {<<" ">>}

ResumeCompletions ==
    {[kind |-> "ok", content |-> c] : c \in SkillLists \cup {NONE}}
        \cup {[kind |-> "raise", content |-> NONE]}

InitResume ==
    /\ \E c \in {<<NONE, NONE, NONE>>, <<(<<"rk-live">>), (<<"az-id">>), (<<"az-key">>)>>} :
            rapidapi_key = c[1] /\ adzuna_app_id = c[2] /\ adzuna_app_key = c[3]
    /\ Idle

\* search_jobs_by_resume, lines 104-117
SearchJobsByResume ==
    /\ pc = "idle"
    /\ \E resume_text \in {<<"r">>}, location \in Locations, results_wanted \in Counts,
          job_type \in JobTypeArgs, completion \in ResumeCompletions, fault \in Faults :
        LET extracted == extract_skills_from_resume(resume_text, completion)
            skills == extracted.skills
        IN  /\ call' = [NoCall EXCEPT !.op = "search_jobs_by_resume",
                                      !.resume_text = resume_text,
                                      !.location = location,
                                      !.results_wanted = results_wanted,
                                      !.job_type = job_type,
                                      !.completion = completion]
            /\ llm_log' = extracted.requests
            /\ IF skills = <<>>
               THEN /\ logs' = extracted.logs \o <<"Could not extract skills from resume">>
                    /\ result' = Returned(EmptyFrame)
                    /\ delegated' = <<>>
                    /\ UNCHANGED <<http_log, handed, sampled>>
               ELSE /\ delegated' = <<[search_term |-> ResumeSearchTerm(skills),
                                       location |-> location,
                                       results_wanted |-> results_wanted,
                                       job_type |-> job_type]>>
                    /\ RunSearchJobs(ResumeSearchTerm(skills), location, results_wanted,
                                     job_type, fault, extracted.logs)
    /\ pc' = "returned"
    /\ UNCHANGED <<session, rapidapi_key, adzuna_app_id, adzuna_app_key>>

NextResume == SearchJobsByResume \/ Return

SpecResume == InitResume /\ [][NextResume]_vars

----------------------------------------------------------------------------
(* The job search with counts above the provider cap, with real or absent credentials
   and one search term *)

InitWide ==
    /\ rapidapi_key \in {NONE, <<"rk-live">>}
    /\ \E c \in {<<NONE, NONE>>, <<(<<"az-id">>), (<<"az-key">>)>>} :
            adzuna_app_id = c[1] /\ adzuna_app_key = c[2]
    /\ Idle

SearchJobsWide ==
    SearchJobsOver({<<"d">>}, Counts \cup {BigCount}, JobTypeArgs \cup {<<"Any">>}, Faults)

NextWide == SearchJobsWide \/ Return

SpecWide == InitWide /\ [][NextWide]_vars

----------------------------------------------------------------------------
(* The two adapters on their own *)

\* the job types of the selector of the application, in several cases, a value the
\* tables do not map and the empty string
WideJobTypes ==
    {NONE, <<>>, <<"Any">>, <<"ANY">>, <<"Full-time">>, <<"FULL-TIME">>, <<"Part-time">>,
     <<"Contract">>, <<"Internship">>, <<"INTERNSHIP">>, <<"Temporary">>}

InitAdapters ==
    /\ rapidapi_key = <<"rk-live">>
    /\ adzuna_app_id = <<"az-id">>
    /\ adzuna_app_key = <<"az-key">>
    /\ Idle

SearchJSearchApi ==
    /\ pc = "idle"
    /\ \E search_term \in Terms, location \in Locations, results_wanted \in Counts,
          job_type \in WideJobTypes, resp \in JSearchAnswers :
        LET out == search_jsearch_api(rapidapi_key, search_term, location, results_wanted,
                                      job_type, resp)
        IN  /\ call' = [NoCall EXCEPT !.op = "_search_jsearch_api",
                                      !.search_term = search_term,
                                      !.location = location,
                                      !.results_wanted = results_wanted,
                                      !.job_type = job_type]
            /\ http_log' = <<out.request>>
            /\ handed' = out.jobs
            /\ logs' = out.logs
    /\ result' = Returned(EmptyFrame)
    /\ pc' = "returned"
    /\ UNCHANGED <<session, rapidapi_key, adzuna_app_id, adzuna_app_key, delegated, llm_log, sampled>>

SearchAdzunaApi ==
    /\ pc = "idle"
    /\ \E search_term \in Terms, location \in Locations, results_wanted \in Counts,
          job_type \in WideJobTypes, resp \in AdzunaAnswers :
        LET out == search_adzuna_api(adzuna_app_id, adzuna_app_key, search_term, location,
                                     results_wanted, job_type, resp)
        IN  /\ call' = [NoCall EXCEPT !.op = "_search_adzuna_api",
                                      !.search_term = search_term,
                                      !.location = location,
                                      !.results_wanted = results_wanted,
                                      !.job_type = job_type]
            /\ http_log' = <<out.request>>
            /\ handed' = out.jobs
            /\ logs' = out.logs
    /\ result' = Returned(EmptyFrame)
    /\ pc' = "returned"
    /\ UNCHANGED <<session, rapidapi_key, adzuna_app_id, adzuna_app_key, delegated, llm_log, sampled>>

NextAdapters == SearchJSearchApi \/ SearchAdzunaApi \/ Return

SpecAdapters == InitAdapters /\ [][NextAdapters]_vars

----------------------------------------------------------------------------
(* The salary formatters of the adapters on their own *)

\* salary amounts of a payload: missing or null, zero, and amounts with one, two and
\* three groups of digits
Amounts == {NO_AMOUNT, 0, 999, 80000, 1234567}

\* job_salary_period of a payload: missing, null, and two labels
Periods == {ABSENT, NONE, <<"year">>, <<"hour">>}

InitSalary ==
    /\ rapidapi_key = NONE
    /\ adzuna_app_id = NONE
    /\ adzuna_app_key = NONE
    /\ Idle

FormatSalaryJSearch ==
    /\ pc = "idle"
    /\ \E min_salary \in Amounts, max_salary \in Amounts, salary_period \in Periods :
        LET job == [job_min_salary |-> min_salary, job_max_salary |-> max_salary,
                    job_salary_period |-> salary_period]
        IN  /\ call' = [NoCall EXCEPT !.op = "_format_salary_jsearch", !.job = job]
            /\ result' = [raised |-> FALSE, frame |-> EmptyFrame,
                          salary |-> format_salary_jsearch(job)]
    /\ pc' = "returned"
    /\ UNCHANGED <<session, rapidapi_key, adzuna_app_id, adzuna_app_key, delegated, http_log, llm_log, logs,
                   handed, sampled>>

FormatSalaryAdzuna ==
    /\ pc = "idle"
    /\ \E min_salary \in Amounts, max_salary \in Amounts :
        LET job == [salary_min |-> min_salary, salary_max |-> max_salary]
        IN  /\ call' = [NoCall EXCEPT !.op = "_format_salary_adzuna", !.job = job]
            /\ result' = [raised |-> FALSE, frame |-> EmptyFrame,
                          salary |-> format_salary_adzuna(job)]
    /\ pc' = "returned"
    /\ UNCHANGED <<session, rapidapi_key, adzuna_app_id, adzuna_app_key, delegated, http_log, llm_log, logs,
                   handed, sampled>>

NextSalary == FormatSalaryJSearch \/ FormatSalaryAdzuna \/ Return

SpecSalary == InitSalary /\ [][NextSalary]_vars

----------------------------------------------------------------------------
(* The skill extractor on its own *)

MaxLong == 50        \* the length of the long token a completion response may hold

SkillAlphabet == {"a", ",", " ", "'"}
ResumeTexts == {<<>>, <<" ">>, <<"r">>}

\* the contents a completion may return: a free head, possibly a long token, and a
\* tail of further tokens
Contents ==
    {head \o (IF long THEN [i \in 1..MaxLong |-> "a"] ELSE <<>>)
          \o [i \in 1..(2 * tail) |-> IF i % 2 = 1 THEN "," ELSE "a"] :
        head \in SeqsUpTo(SkillAlphabet, MaxPrefix), long \in BOOLEAN, tail \in 0..MaxTail}

Completions ==
    {[kind |-> "ok", content |-> c] : c \in Contents \cup {NONE}}
        \cup {[kind |-> "raise", content |-> NONE]}

InitSkills ==
    /\ rapidapi_key = NONE
    /\ adzuna_app_id = NONE
    /\ adzuna_app_key = NONE
    /\ Idle

ExtractSkills ==
    /\ pc = "idle"
    /\ \E resume_text \in ResumeTexts, completion \in Completions :
        LET out == extract_skills_from_resume(resume_text, completion)
        IN  /\ call' = [NoCall EXCEPT !.op = "extract_skills_from_resume",
                                      !.resume_text = resume_text,
                                      !.completion = completion]
            /\ result' = [raised |-> FALSE, frame |-> EmptyFrame, skills |-> out.skills]
            /\ llm_log' = out.requests
            /\ logs' = out.logs
    /\ pc' = "returned"
    /\ UNCHANGED <<session, rapidapi_key, adzuna_app_id, adzuna_app_key, delegated, http_log, handed, sampled>>

MaxRecHead == 2      \* the length of the free head of a recommendations text
MaxRecLines == 6     \* the number of further lines of a recommendations text

RecAlphabet == {"a", "-", Bullet, "1", "6", ".", " ", "\n"}
TargetRoles == {NONE, <<"d">>}

\* the contents a completion may return for recommendations: a free head and further
\* lines, each a dash and a word
RecContents ==
    {head \o [i \in 1..(3 * tail) |-> CASE i % 3 = 1 -> "\n" [] i % 3 = 2 -> "-" [] OTHER -> "a"] :
        head \in SeqsUpTo(RecAlphabet, MaxRecHead), tail \in 0..MaxRecLines}

RecCompletions ==
    {[kind |-> "ok", content |-> c] : c \in RecContents \cup {NONE}}
        \cup {[kind |-> "raise", content |-> NONE]}

GetJobRecommendations ==
    /\ pc = "idle"
    /\ \E resume_text \in ResumeTexts, target_role \in TargetRoles, completion \in RecCompletions :
        LET out == get_job_recommendations(resume_text, target_role, completion)
        IN  /\ call' = [NoCall EXCEPT !.op = "get_job_recommendations",
                                      !.resume_text = resume_text,
                                      !.target_role = target_role,
                                      !.completion = completion]
            /\ result' = [raised |-> FALSE, frame |-> EmptyFrame,
                          recommendations |-> out.recommendations]
            /\ llm_log' = out.requests
            /\ logs' = out.logs
    /\ pc' = "returned"
    /\ UNCHANGED <<session, rapidapi_key, adzuna_app_id, adzuna_app_key, delegated, http_log, handed, sampled>>

NextSkills == ExtractSkills \/ Return

NextRecommend == ExtractSkills \/ GetJobRecommendations \/ Return

SpecSkills == InitSkills /\ [][NextSkills]_vars

SpecRecommend == InitSkills /\ [][NextRecommend]_vars

----------------------------------------------------------------------------
(* The normaliser on its own *)

\* the job dicts of the frames given to the normaliser
FrameJobs ==
    {JSearchJob(j) : j \in JSearchPayloads} \cup {AdzunaJob(j) : j \in AdzunaPayloads}

CleanJobData ==
    /\ pc = "idle"
    /\ \E all_jobs \in SeqsUpTo(FrameJobs, MaxFrame), fault \in CleanFaults :
        \E out \in clean_job_data(IF all_jobs = <<>> THEN EmptyFrame ELSE Frame(all_jobs), fault) :
            /\ call' = [NoCall EXCEPT !.op = "_clean_job_data"]
            /\ handed' = all_jobs
            /\ result' = Returned(out.frame)
            /\ logs' = out.logs
    /\ pc' = "returned"
    /\ UNCHANGED <<session, rapidapi_key, adzuna_app_id, adzuna_app_key, delegated, http_log, llm_log, sampled>>

NextClean == CleanJobData \/ Return

SpecClean == InitSkills /\ [][NextClean]_vars

----------------------------------------------------------------------------
(* The sample generator on its own *)

\* counts around zero and around the limit of 20 records
SampleCounts == 0..MaxCount \cup {SAMPLE_LIMIT - 1, SAMPLE_LIMIT, SAMPLE_LIMIT + 1}

GenerateSampleJobs ==
    /\ pc = "idle"
    /\ \E search_term \in Terms, location \in Locations, results_wanted \in SampleCounts,
          job_type \in WideJobTypes :
        \E draws \in DrawSeqs(SampleSize(results_wanted)) :
            /\ call' = [NoCall EXCEPT !.op = "_generate_sample_jobs",
                                      !.search_term = search_term,
                                      !.location = location,
                                      !.results_wanted = results_wanted,
                                      !.job_type = job_type]
            /\ sampled' = generate_sample_jobs(search_term, location, results_wanted,
                                               job_type, draws)
    /\ result' = Returned(EmptyFrame)
    /\ pc' = "returned"
    /\ UNCHANGED <<session, rapidapi_key, adzuna_app_id, adzuna_app_key, delegated, http_log, llm_log, logs, handed>>

NextSample == GenerateSampleJobs \/ Return

SpecSample == InitSkills /\ [][NextSample]_vars

----------------------------------------------------------------------------
(* The cover letters, CoverLetterGenerator in src/cover_letter.py *)

RESUME_REQUIRED == <<"Error: Resume content is required to generate a cover letter.">>
OFFER_REQUIRED == <<"Error: Job offer/description is required to generate a cover letter.">>
LETTER_FAILED == <<"Error generating cover letter">>

\* lines 37 and 40: not text or not text.strip()
Blank(text) == text = NONE \/ Strip(text, Whitespace) = <<>>

\* generate_cover_letter: the letter returned and the completion requests made;
\* completion.kind is "ok" with the content returned or "raise" when the call raises;
\* a null content fails at .strip() inside the try (line 110)
generate_cover_letter(resume_content, job_offer, job_title, company_name, completion) ==
    IF Blank(resume_content) THEN [letter |-> RESUME_REQUIRED, requests |-> <<>>]
    ELSE IF Blank(job_offer) THEN [letter |-> OFFER_REQUIRED, requests |-> <<>>]
    ELSE [letter |-> IF completion.kind = "ok" /\ completion.content # NONE
                     THEN Strip(completion.content, Whitespace)
                     ELSE LETTER_FAILED,
          requests |-> <<[prompt |-> resume_content, job_offer |-> job_offer,
                          job_title |-> job_title, company_name |-> company_name]>>]

\* a dict as the sequence of its entries in insertion order; d[k] = v replaces the
\* value of an entry with key k and adds an entry when there is none
DictSet(dict, k, v) ==
    IF \E i \in 1..Len(dict) : dict[i].key = k
    THEN [i \in 1..Len(dict) |-> IF dict[i].key = k THEN [key |-> k, value |-> v] ELSE dict[i]]
    ELSE Append(dict, [key |-> k, value |-> v])

\* f"Position {i+1}" for the offer at the 1-based position n
DefaultTitle(n) == <<"Position ">> \o IntStr(n)

\* lines 170-177: the offer text, title and company of one element of job_offers
OfferOf(job_data) == IF job_data.kind = "dict" THEN Get(job_data, "offer", <<>>) ELSE job_data.text
TitleOf(job_data, n) ==
    IF job_data.kind = "dict" THEN Get(job_data, "title", DefaultTitle(n)) ELSE DefaultTitle(n)
CompanyOf(job_data) == IF job_data.kind = "dict" THEN Get(job_data, "company", <<>>) ELSE <<>>

\* lines 169-186: the loop from the offer at position n on
RECURSIVE BatchFrom(_, _, _, _, _, _)
BatchFrom(resume_content, job_offers, completions, n, results, requests) ==
    IF n > Len(job_offers) THEN [results |-> results, requests |-> requests]
    ELSE LET job_data == job_offers[n]
             out == generate_cover_letter(resume_content, OfferOf(job_data),
                        TitleOf(job_data, n), CompanyOf(job_data), completions[n])
         IN  BatchFrom(resume_content, job_offers, completions, n + 1,
                       DictSet(results, TitleOf(job_data, n), out.letter),
                       requests \o out.requests)

\* generate_cover_letter_batch: completions[n] is the outcome of the completion call
\* made for the n-th offer, if one is made
generate_cover_letter_batch(resume_content, job_offers, completions) ==
    BatchFrom(resume_content, job_offers, completions, 1, <<>>, <<>>)

MaxOffers == 3       \* the number of job offers of a batch

\* the elements of job_offers: dicts with and without a title, with a blank and a
\* non-blank description, a dict titled as the default of the second position, a string
JobOffers ==
    {[kind |-> "dict", offer |-> o, title |-> t, company |-> ABSENT] :
        o \in {<<" ">>, <<"o">>}, t \in {ABSENT, <<"t1">>}}
    \cup {[kind |-> "dict", offer |-> <<"o">>, title |-> DefaultTitle(2), company |-> <<"c1">>],
          [kind |-> "str", text |-> <<"o">>]}

LetterCompletions ==
    {[kind |-> "ok", content |-> <<"l", " ">>], [kind |-> "raise", content |-> NONE]}

GenerateCoverLetterBatch ==
    /\ pc = "idle"
    /\ \E resume_content \in ResumeTexts, job_offers \in SeqsUpTo(JobOffers, MaxOffers) :
        \E completions \in [1..Len(job_offers) -> LetterCompletions] :
            LET out == generate_cover_letter_batch(resume_content, job_offers, completions)
            IN  /\ call' = [NoCall EXCEPT !.op = "generate_cover_letter_batch",
                                          !.resume_text = resume_content,
                                          !.job_offers = job_offers]
                /\ result' = [raised |-> FALSE, frame |-> EmptyFrame, letters |-> out.results]
                /\ llm_log' = out.requests
    /\ pc' = "returned"
    /\ UNCHANGED <<session, rapidapi_key, adzuna_app_id, adzuna_app_key, delegated, http_log, logs, handed, sampled>>

NextLetters == GenerateCoverLetterBatch \/ Return

SpecLetters == InitSkills /\ [][NextLetters]_vars

----------------------------------------------------------------------------
(* The interview session, render_interview_training in src/interview_training.py. *)
(* A step is one run of the script up to its st.rerun() or its end, or a second   *)
(* passing on the clock.                                                           *)

MaxTime == 3         \* the seconds the clock runs through
MaxEntries == 2      \* an interview turn is taken while the histories hold fewer entries

\* the variables of the job search
search == <<rapidapi_key, adzuna_app_id, adzuna_app_key, pc, call, result,
            http_log, llm_log, logs, handed, sampled, delegated>>

SORRY == <<"Sorry, I encountered an error">>

\* lines 44-78: None for an empty input, the content of the completion, or the apology
\* when the call raises
get_interview_response(user_input, completion) ==
    IF ~Truthy(user_input) THEN NONE
    ELSE IF completion.kind = "ok" THEN completion.content
    ELSE SORRY

\* lines 21-42: listen_audio returns (text, None) or (None, error)
ListenOutcomes ==
    {[text |-> <<"a">>, error |-> NONE], [text |-> <<>>, error |-> NONE],
     [text |-> NONE, error |-> <<"No speech detected">>]}

InterviewCompletions ==
    {[kind |-> "ok", content |-> <<"q">>], [kind |-> "raise", content |-> NONE]}

\* datetime.now().strftime("%Y%m%d_%H%M%S"): the time to the second, as a text
ChatId(t) == IntStr(t)

Entry(role, content) == [role |-> role, content |-> content]

\* the entry put at the front of the history
Inserted(history, entry) == <<entry>> \o history

\* current_chat['history'].append(entry)
Appended(history, entry) == Append(history, entry)

HasChat(chats, chat_id) == \E i \in 1..Len(chats) : chats[i].id = chat_id
IndexOf(chats, chat_id) == CHOOSE i \in 1..Len(chats) : chats[i].id = chat_id
ChatIds(chats) == [i \in 1..Len(chats) |-> chats[i].id]

\* all_chats[chat.id] = chat: the value under an existing key is replaced in place
SetChat(chats, chat) ==
    IF HasChat(chats, chat.id) THEN [chats EXCEPT ![IndexOf(chats, chat.id)] = chat]
    ELSE Append(chats, chat)

\* lines 120-130, 203-213, 423-433: the chat created at the time t
NewChatData(chats, t) ==
    [id |-> ChatId(t), history |-> <<>>, context |-> <<>>,
     title |-> <<"Interview ">> \o IntStr(Len(chats) + 1), created_at |-> t]

Created(chats, t) == SetChat(chats, NewChatData(chats, t))

\* lines 218-220: the chat of current_chat_id
CurrentChat == all_chats[IndexOf(all_chats, current_chat_id)]

RECURSIVE TotalEntries(_)
TotalEntries(chats) ==
    IF chats = <<>> THEN 0 ELSE Len(Head(chats).history) + TotalEntries(Tail(chats))

\* a click is taken when the page waits or between two runs of the listening loop
Clickable == run \in {"waiting", "listening"}

\* st.rerun() was called: the script runs again with no widget pressed
Pending == run \in {"rerun", "listening"}

\* the first of the remaining chats
FirstRemaining(remaining_chats) == remaining_chats[1]

\* remaining_chats[-1], line 183
LastRemaining(remaining_chats) == remaining_chats[Len(remaining_chats)]

\* a summary whatever the length of the history
SummaryAlways(history) == TRUE

\* line 334: if len(interview_history) > 2
SummaryDue(history) == Len(history) > 2

\* the loop going on only after recognised speech
AfterSpeechOnly(user_text) == IF Truthy(user_text) THEN "listening" ELSE "waiting"

\* line 393: st.rerun() at the end of the listen cycle, whatever was heard
AfterListen(user_text) == "listening"

\* lines 118-133: the New Chat button
NewChat ==
    /\ Clickable
    /\ all_chats' = Created(all_chats, now)
    /\ current_chat_id' = ChatId(now)
    /\ interview_started' = FALSE
    /\ run' = "rerun"
    /\ heard' = "none"
    /\ UNCHANGED <<now, search>>

\* lines 137-147: the Clear Current Chat button
ClearCurrentChat ==
    /\ Clickable
    /\ current_chat_id # NONE /\ HasChat(all_chats, current_chat_id)
    /\ all_chats' = [all_chats EXCEPT ![IndexOf(all_chats, current_chat_id)] =
                        [@ EXCEPT !.history = <<>>, !.context = <<>>]]
    /\ interview_started' = FALSE
    /\ run' = "rerun"
    /\ heard' = "none"
    /\ UNCHANGED <<current_chat_id, now, search>>

\* lines 172-175: the button of a chat in the sidebar
SelectChat ==
    /\ Clickable
    /\ \E i \in 1..Len(all_chats) : current_chat_id' = all_chats[i].id
    /\ interview_started' = FALSE
    /\ run' = "rerun"
    /\ heard' = "none"
    /\ UNCHANGED <<all_chats, now, search>>

\* lines 177-188: the delete button of a chat in the sidebar
DeleteChat ==
    /\ Clickable
    /\ \E i \in 1..Len(all_chats) :
        LET chat_id == all_chats[i].id
            remaining_chats == SelectSeq(ChatIds(all_chats), LAMBDA cid : cid # chat_id)
        IN  /\ current_chat_id' =
                    IF chat_id = current_chat_id
                    THEN IF remaining_chats # <<>> THEN LastRemaining(remaining_chats) ELSE NONE
                    ELSE current_chat_id
            /\ all_chats' = SelectSeq(all_chats, LAMBDA c : c.id # chat_id)
    /\ interview_started' = FALSE
    /\ run' = "rerun"
    /\ heard' = "none"
    /\ UNCHANGED <<now, search>>

\* lines 200-215: a run with no current chat creates one and runs again
DefaultChat ==
    /\ Pending
    /\ current_chat_id = NONE
    /\ all_chats' = Created(all_chats, now)
    /\ current_chat_id' = ChatId(now)
    /\ run' = "rerun"
    /\ heard' = "none"
    /\ UNCHANGED <<interview_started, now, search>>

\* lines 251-285: the Start Interview button, shown while no interview is started
StartInterview ==
    /\ Clickable
    /\ current_chat_id # NONE /\ ~interview_started
    /\ TotalEntries(all_chats) < MaxEntries
    /\ \E completion \in InterviewCompletions :
        LET opening_response == get_interview_response(<<"Start a technical interview">>, completion)
        IN  all_chats' = [all_chats EXCEPT ![IndexOf(all_chats, current_chat_id)] =
                [@ EXCEPT !.context = <<"Candidate's Resume">>,
                          !.title = <<"Technical Interview">>,
                          !.history = Appended(@, Entry("interviewer", opening_response))]]
    /\ interview_started' = TRUE
    /\ run' = "rerun"
    /\ heard' = "none"
    /\ UNCHANGED <<current_chat_id, now, search>>

\* lines 326-350: the End Interview button, shown while an interview is started
EndInterview ==
    /\ Clickable
    /\ current_chat_id # NONE /\ interview_started
    /\ interview_started' = FALSE
    /\ IF SummaryDue(CurrentChat.history)
       THEN \E completion \in InterviewCompletions :
                LET summary == get_interview_response(<<"Based on this interview">>, completion)
                IN  all_chats' = [all_chats EXCEPT ![IndexOf(all_chats, current_chat_id)].history =
                                    Appended(@, Entry("summary", summary))]
       ELSE UNCHANGED all_chats
    /\ run' = "rerun"
    /\ heard' = "none"
    /\ UNCHANGED <<current_chat_id, now, search>>

\* lines 352-393: a run with an interview started listens, answers what it heard and
\* runs again
ListenCycle ==
    /\ Pending
    /\ current_chat_id # NONE /\ interview_started
    /\ \E heard_now \in ListenOutcomes :
        /\ IF Truthy(heard_now.error) THEN heard' = "error" /\ UNCHANGED all_chats
           ELSE IF Truthy(heard_now.text)
           THEN /\ TotalEntries(all_chats) < MaxEntries
                /\ heard' = "text"
                /\ \E completion \in InterviewCompletions :
                    LET with_answer == Appended(CurrentChat.history,
                                                Entry("candidate", heard_now.text))
                        interviewer_response ==
                            get_interview_response(<<"Based on this conversation">>, completion)
                    IN  all_chats' =
                            [all_chats EXCEPT ![IndexOf(all_chats, current_chat_id)].history =
                                Appended(with_answer, Entry("interviewer", interviewer_response))]
           ELSE heard' = "silence" /\ UNCHANGED all_chats
        /\ run' = AfterListen(heard_now.text)
    /\ UNCHANGED <<current_chat_id, interview_started, now, search>>

\* lines 222-249, 410-419: a run with no interview started shows the page and ends
Render ==
    /\ Pending
    /\ current_chat_id # NONE /\ ~interview_started
    /\ run' = "waiting"
    /\ heard' = "none"
    /\ UNCHANGED <<all_chats, current_chat_id, interview_started, now, search>>

\* lines 421-436: the Start New Interview button, shown when no interview is started
\* and the current chat has a history
StartNewInterview ==
    /\ Clickable
    /\ current_chat_id # NONE /\ ~interview_started
    /\ CurrentChat.history # <<>>
    /\ all_chats' = Created(all_chats, now)
    /\ current_chat_id' = ChatId(now)
    /\ interview_started' = FALSE
    /\ run' = "rerun"
    /\ heard' = "none"
    /\ UNCHANGED <<now, search>>

\* a second passes
Tick ==
    /\ now < MaxTime
    /\ now' = now + 1
    /\ UNCHANGED <<all_chats, current_chat_id, interview_started, run, heard, search>>

NextInterview ==
    \/ NewChat \/ ClearCurrentChat \/ SelectChat \/ DeleteChat \/ DefaultChat
    \/ StartInterview \/ EndInterview \/ ListenCycle \/ Render \/ StartNewInterview
    \/ Tick

SpecInterview == InitSkills /\ [][NextInterview]_vars

----------------------------------------------------------------------------
(* Properties *)

SearchReturned == pc = "returned" /\ call.op = "search_jobs"
SkillsReturned == pc = "returned" /\ call.op = "extract_skills_from_resume"
CleanReturned == pc = "returned" /\ call.op = "_clean_job_data"

\* a text that is not empty after trimming
NonBlank(t) == \E i \in 1..Len(t) : t[i] \notin Whitespace

Logged(m) == \E i \in 1..Len(logs) : logs[i] = m
Asked(p) == \E i \in 1..Len(http_log) : http_log[i].provider = p
FromSource(rows, src) == \E i \in 1..Len(rows) : rows[i]["Source"] = <<src>>
SamePair(r, q) == r["Job Title"] = q["Job Title"] /\ r["Company"] = q["Company"]

Placeholders == {<<"your_rapidapi_key_here">>, <<"your_adzuna_app_id_here">>,
                 <<"your_adzuna_app_key_here">>}
NotConfigured(v) == v = NONE \/ v \in Placeholders

\* no credential is a placeholder, and nothing failed outside the adapters
NoPlaceholder ==
    rapidapi_key \notin Placeholders /\ adzuna_app_id \notin Placeholders
        /\ adzuna_app_key \notin Placeholders
NoFault == ~Logged("Error searching for jobs") /\ ~Logged("Error cleaning job data")

\* C1: for a non-empty term and a count > 0, whatever the providers answer, the table
\* search_jobs returns has at most `count` rows.
C1_AtMostCountRows ==
    (SearchReturned /\ NonBlank(call.search_term) /\ NoPlaceholder /\ NoFault)
        => Len(result.frame.rows) <= call.results_wanted

\* C2 as claimed: on every path of search_jobs, a caught failure included, the table
\* has exactly the eight canonical columns in their order.
C2_EightColumnsOnEveryPath ==
    (SearchReturned /\ NonBlank(call.search_term) /\ NoPlaceholder)
        => result.frame.columns = JobKeys

\* C2 as amended: the table has exactly the eight canonical columns in their order on
\* the paths that return provider or sample records; when search_jobs catches a failure
\* at its boundary the table returned has no columns and no rows.
C2_EightColumnsUnlessCaught ==
    (SearchReturned /\ NonBlank(call.search_term))
        => IF Logged("Error searching for jobs")
           THEN result.frame.columns = <<>> /\ result.frame.rows = <<>>
           ELSE /\ result.frame.columns = JobKeys
                /\ result.frame.rows # <<>>
                /\ \A i \in 1..Len(result.frame.rows) :
                        DOMAIN result.frame.rows[i] = Range(JobKeys)

\* C2's case: provider records were returned through the normaliser
C2_Witness ==
    /\ SearchReturned /\ NonBlank(call.search_term)
    /\ ~Logged("Error searching for jobs")
    /\ FromSource(result.frame.rows, "JSearch API")
    /\ FromSource(result.frame.rows, "Adzuna API")
    /\ result.frame.columns = JobKeys

\* C3: with no provider configured and no failure, search_jobs with a non-empty term and
\* count n returns exactly n rows whatever the random choices of the sample generator.
C3_SampleExactlyCount ==
    (/\ SearchReturned /\ NonBlank(call.search_term)
     /\ rapidapi_key = NONE /\ adzuna_app_id = NONE /\ adzuna_app_key = NONE
     /\ logs = <<"No API keys configured">>)
        => Len(result.frame.rows) = call.results_wanted

\* C4: the normaliser's output holds each (Job Title, Company) pair of its input exactly
\* once, and the record kept for a pair is the first record of the input with that pair.
C4_FirstOfEachPairKept ==
    (CleanReturned /\ logs = <<>> /\ handed # <<>>)
        => LET rows == result.frame.rows
           IN  /\ \A i, j \in 1..Len(rows) : SamePair(rows[i], rows[j]) => i = j
               /\ \A k \in 1..Len(handed) : \E i \in 1..Len(rows) : SamePair(rows[i], handed[k])
               /\ \A i \in 1..Len(rows) :
                    \E k \in 1..Len(handed) :
                        /\ rows[i] = handed[k]
                        /\ \A m \in 1..(k - 1) : ~SamePair(handed[m], handed[k])

\* C4's case: the input repeats a pair in two different records and the later is dropped
C4_Witness ==
    /\ CleanReturned /\ logs = <<>>
    /\ \E k, m \in 1..Len(handed) : k < m /\ SamePair(handed[k], handed[m]) /\ handed[k] # handed[m]
    /\ Len(result.frame.rows) < Len(handed)
    /\ Len(result.frame.rows) > 1

\* C5: an adapter whose credentials are absent or a recognised placeholder is skipped:
\* no request goes to that provider and no record of the result comes from it.
C5_UnconfiguredAdapterSkipped ==
    (SearchReturned /\ NonBlank(call.search_term) /\ NoFault) =>
        /\ NotConfigured(rapidapi_key)
                => ~Asked("jsearch") /\ ~FromSource(handed, "JSearch API")
        /\ (NotConfigured(adzuna_app_id) \/ NotConfigured(adzuna_app_key))
                => ~Asked("adzuna") /\ ~FromSource(handed, "Adzuna API")

\* C6: search_jobs with a term that is empty after trimming returns an empty table at
\* once: no request is issued and no sample record is generated.
C6_BlankTermFailsFast ==
    (SearchReturned /\ ~NonBlank(call.search_term) /\ NoPlaceholder /\ NoFault)
        => result.frame.rows = <<>> /\ http_log = <<>> /\ sampled = <<>>

\* C7: extract_skills_from_resume with an empty or whitespace-only resume text returns
\* the empty list without requesting a completion.
C7_BlankResumeNoCompletion ==
    (SkillsReturned /\ ~NonBlank(call.resume_text))
        => result.skills = <<>> /\ llm_log = <<>>

\* the comma-separated pieces of a text, cut at the positions of its commas
PiecesOf(s) ==
    LET cuts == {0, Len(s) + 1} \cup {i \in 1..Len(s) : s[i] = ","}
        CutAt(k) == CHOOSE c \in cuts : Cardinality({d \in cuts : d < c}) = k
    IN  [k \in 1..(Cardinality(cuts) - 1) |-> SubSeq(s, CutAt(k - 1) + 1, CutAt(k) - 1)]

\* a text without the characters of `chars` at its two ends
TrimmedBy(t, chars) ==
    LET keep == {i \in 1..Len(t) : t[i] \notin chars}
    IN  IF keep = {} THEN <<>>
        ELSE SubSeq(t, CHOOSE i \in keep : \A j \in keep : i <= j,
                       CHOOSE i \in keep : \A j \in keep : j <= i)

\* the non-empty trimmed pieces of a text, in order
TokensOf(s, chars) ==
    SelectSeq([k \in 1..Len(PiecesOf(s)) |-> TrimmedBy(PiecesOf(s)[k], chars)],
              LAMBDA t : t # <<>>)

FirstN(s, n) == SubSeq(s, 1, IF Len(s) < n THEN Len(s) ELSE n)

HasContent == call.completion.kind = "ok" /\ call.completion.content # NONE

\* C8 as claimed: the skills are the first 15 of the comma-separated pieces of the
\* response, each trimmed of whitespace and surrounding quote characters, without the
\* empty pieces and without the pieces of 50 or more characters.
C8_TokensUnquotedAndShort ==
    (SkillsReturned /\ HasContent)
        => result.skills =
            FirstN(SelectSeq(TokensOf(call.completion.content, Whitespace \cup {"'"}),
                             LAMBDA t : Len(t) < 50), 15)

\* C8 as amended: the skills are the first 15 of the comma-separated pieces of the
\* response in their order, each trimmed of whitespace, without the empty pieces; quote
\* characters are kept and no piece is discarded for its length.
C8_TokensTrimmed ==
    (SkillsReturned /\ HasContent)
        => /\ result.skills = FirstN(TokensOf(call.completion.content, Whitespace), 15)
           /\ Len(result.skills) <= 15

\* C8's case: a response with more than 15 tokens, cut to 15
C8_Witness ==
    /\ SkillsReturned /\ HasContent
    /\ Len(TokensOf(call.completion.content, Whitespace)) > 15
    /\ Len(result.skills) = 15

\* C9: search_jobs never raises, whatever the adapters' outcomes and whatever fails in
\* aggregation or normalisation; when it catches a failure at its boundary the table it
\* returns is empty.
C9_NeverRaises ==
    SearchReturned =>
        /\ ~result.raised
        /\ Logged("Error searching for jobs") => result.frame.rows = <<>>

\* C9's case: a failure after both adapters had been called, caught at the boundary
C9_Witness ==
    /\ SearchReturned
    /\ Logged("Error searching for jobs")
    /\ Asked("jsearch") /\ Asked("adzuna")
    /\ handed # <<>>
    /\ ~result.raised

JSearchFailed == Logged("JSearch API returned status code") \/ Logged("JSearch API error")
AdzunaFailed == Logged("Adzuna API returned status code") \/ Logged("Adzuna API error")

\* C10: a provider call that ends in a non-200 status, an exception or a timeout gives
\* no record and the search goes on: after a JSearch failure Adzuna is still called if
\* it is configured, and when every provider called has failed the sample records are
\* still produced.
C10_FailureSkipsSource ==
    SearchReturned =>
        /\ ~result.raised
        /\ JSearchFailed => ~FromSource(handed, "JSearch API")
        /\ AdzunaFailed => ~FromSource(handed, "Adzuna API")
        /\ (JSearchFailed /\ Truthy(adzuna_app_id) /\ Truthy(adzuna_app_key))
                => /\ Len(http_log) = 2
                   /\ http_log[1].provider = "jsearch"
                   /\ http_log[2].provider = "adzuna"
        /\ ((Asked("jsearch") => JSearchFailed) /\ (Asked("adzuna") => AdzunaFailed))
                => /\ Len(sampled) = Min(call.results_wanted, 20)
                   /\ handed = sampled

\* C10's case: JSearch failed, Adzuna was then called and its records were returned
C10_Witness ==
    /\ SearchReturned
    /\ JSearchFailed
    /\ Asked("adzuna")
    /\ FromSource(result.frame.rows, "Adzuna API")

\* the number of records of a list that carry a source label
CountFrom(rows, src) == Cardinality({i \in 1..Len(rows) : rows[i]["Source"] = <<src>>})

Configured(v) == ~NotConfigured(v)

ProviderSources == {<<"JSearch API">>, <<"Adzuna API">>}

\* the number of records of a list that came from a provider
Collected(rows) == Cardinality({i \in 1..Len(rows) : rows[i]["Source"] \in ProviderSources})

\* C12: search_jobs invokes the sample generator if and only if no record was collected
\* from the providers; when at least one provider record was collected the result holds
\* no sample record.
C12_SampleIffNothingCollected ==
    SearchReturned =>
        /\ (sampled # <<>>) <=> (Collected(handed) = 0)
        /\ Collected(handed) = 0 => handed = sampled /\ Len(sampled) = Min(call.results_wanted, 20)
        /\ Collected(handed) > 0 =>
                \A i \in 1..Len(result.frame.rows) :
                    result.frame.rows[i]["Source"] \in ProviderSources

\* C12's case: both providers were asked and gave nothing, and the result is sample data
C12_Witness ==
    /\ SearchReturned
    /\ Asked("jsearch") /\ Asked("adzuna")
    /\ Collected(handed) = 0
    /\ sampled # <<>>
    /\ result.frame.rows # <<>>
    /\ \A i \in 1..Len(result.frame.rows) : result.frame.rows[i]["Source"] \notin ProviderSources

\* C13 as claimed: whenever the providers return fewer records than the count, a
\* non-zero number included, the sample generator is invoked and its records fill the
\* gap between the collected records and the count.
C13_SampleTopsUp ==
    (SearchReturned /\ NoFault /\ Collected(handed) < call.results_wanted)
        => /\ sampled # <<>>
           /\ Len(handed) >= call.results_wanted

\* C13 as amended: when the providers return at least one record but fewer than the
\* count, the sample generator is not invoked: the records handed to the normaliser are
\* the provider records alone and the table has fewer rows than the count.  The sample
\* generator is invoked, for min(count, 20) records, only when nothing was collected.
C13_NoTopUpOnceCollected ==
    SearchReturned =>
        /\ (0 < Collected(handed) /\ Collected(handed) < call.results_wanted)
                => /\ sampled = <<>>
                   /\ Len(handed) = Collected(handed)
                   /\ Len(result.frame.rows) < call.results_wanted
        /\ sampled # <<>> => Collected(handed) = 0 /\ Len(sampled) = Min(call.results_wanted, 20)

\* C13's case: one provider record for a count of two, returned alone
C13_Witness ==
    /\ SearchReturned /\ NoFault
    /\ call.results_wanted = 2
    /\ Collected(handed) = 1
    /\ sampled = <<>>
    /\ Len(result.frame.rows) = 1

NoKeysWarning == Logged("No API keys configured")

C14_WitnessWarned ==
    /\ SearchReturned
    /\ rapidapi_key = NONE /\ adzuna_app_id # NONE /\ adzuna_app_key = NONE
    /\ sampled # <<>>
    /\ NoKeysWarning

\* C15: every record of a table returned by search_jobs has a value in all eight
\* fields: never an absent, a null or an empty one, a field the provider did not supply
\* holding its sentinel.
C15_EveryFieldFilled ==
    (SearchReturned /\ NonBlank(call.search_term) /\ NoPlaceholder) =>
        \A i \in 1..Len(result.frame.rows) :
            \A k \in Range(JobKeys) :
                /\ k \in DOMAIN result.frame.rows[i]
                /\ result.frame.rows[i][k] \notin {<<>>, NONE, ABSENT}

\* the text the spec gives for optional amounts (-1 for an absent one) and a suffix
ClaimedSalary(lo, hi, suffix) ==
    IF lo # -1 /\ hi # -1
    THEN <<"$">> \o Thousands(lo) \o <<" - $">> \o Thousands(hi) \o suffix
    ELSE IF lo # -1 THEN <<"$">> \o Thousands(lo) \o <<"+">> \o suffix
    ELSE IF hi # -1 THEN <<"Up to $">> \o Thousands(hi) \o suffix
    ELSE <<"Salary not specified">>

\* C16: the salary text follows the precedence both / only min / only max / neither
\* for every combination of present and absent amounts, a present amount of 0 included,
\* for the JSearch formatter (suffix " per " and the period, "year" when the payload
\* has none) and for the Adzuna formatter (its yearly suffix).
C16_SalaryPrecedence ==
    /\ (pc = "returned" /\ call.op = "_format_salary_jsearch"
            /\ call.job.job_salary_period \notin {NONE})
        => result.salary =
            ClaimedSalary(call.job.job_min_salary, call.job.job_max_salary,
                          <<" per ">> \o (IF call.job.job_salary_period = ABSENT
                                          THEN <<"year">> ELSE call.job.job_salary_period))
    /\ (pc = "returned" /\ call.op = "_format_salary_adzuna")
        => result.salary =
            ClaimedSalary(call.job.salary_min, call.job.salary_max, <<" yearly">>)

\* C17: the JSearch request carries employment_types by the table full-time -> FULLTIME,
\* part-time -> PARTTIME, contract -> CONTRACTOR, internship -> INTERN, whatever the
\* case of job_type; for "Any" in any case, no job_type or a value the table does not
\* have, the request carries no employment_types.
C17_EmploymentTypesTable ==
    (pc = "returned" /\ call.op = "_search_jsearch_api") =>
        /\ Len(http_log) = 1
        /\ http_log[1].job_filter =
                CASE call.job_type \in {<<"Full-time">>, <<"FULL-TIME">>} -> <<"FULLTIME">>
                  [] call.job_type \in {<<"Part-time">>} -> <<"PARTTIME">>
                  [] call.job_type \in {<<"Contract">>} -> <<"CONTRACTOR">>
                  [] call.job_type \in {<<"Internship">>, <<"INTERNSHIP">>} -> <<"INTERN">>
                  [] call.job_type \in {NONE, <<>>, <<"Any">>, <<"ANY">>, <<"Temporary">>} -> NONE

\* C17's case: an upper-case job type mapped through the table
C17_Witness ==
    /\ pc = "returned" /\ call.op = "_search_jsearch_api"
    /\ call.job_type = <<"INTERNSHIP">>
    /\ http_log[1].job_filter = <<"INTERN">>
    /\ handed # <<>>

ResumeReturned == pc = "returned" /\ call.op = "search_jobs_by_resume"

\* the skills the extractor yields for the completion of the call
SkillsYielded ==
    IF HasContent THEN FirstN(TokensOf(call.completion.content, Whitespace), 15) ELSE <<>>

\* texts joined by " OR "
OrJoined(ts) ==
    LET F[i \in 0..Len(ts)] ==
            IF i = 0 THEN <<>>
            ELSE IF i = 1 THEN ts[1]
            ELSE F[i - 1] \o <<" OR ">> \o ts[i]
    IN  F[Len(ts)]

\* C18: search_jobs_by_resume first runs the skill extractor; with no skill it returns
\* an empty table without any adapter call or sample record; otherwise it calls
\* search_jobs exactly once, with the first five skills (fewer if fewer) in their order
\* joined by " OR " as the term and the caller's location, count and job_type.
C18_ResumeSearchDelegates ==
    ResumeReturned =>
        LET skills == SkillsYielded
        IN  /\ Len(llm_log) = 1 /\ llm_log[1].prompt = call.resume_text
            /\ skills = <<>> =>
                    /\ result.frame.rows = <<>> /\ result.frame.columns = <<>>
                    /\ delegated = <<>> /\ http_log = <<>> /\ sampled = <<>>
            /\ skills # <<>> =>
                    /\ delegated = <<[search_term |-> OrJoined(FirstN(skills, 5)),
                                      location |-> call.location,
                                      results_wanted |-> call.results_wanted,
                                      job_type |-> call.job_type]>>
                    /\ \A i \in 1..Len(http_log) :
                            http_log[i].provider = "adzuna"
                                => http_log[i].query = delegated[1].search_term
                    /\ \A i \in 1..Len(sampled) :
                            /\ sampled[i]["Location"] = call.location
                            /\ \E j \in 1..10 :
                                    sampled[i]["Job Title"] = job_titles(delegated[1].search_term)[j]

\* C18's case: six skills extracted, five of them in the term of the one search, which
\* asked a provider
C18_Witness ==
    /\ ResumeReturned
    /\ Len(SkillsYielded) = 6
    /\ Len(delegated) = 1
    /\ delegated[1].search_term =
            <<"s", "1", " OR ", "s", "2", " OR ", "s", "3", " OR ", "s", "4", " OR ", "s", "5">>
    /\ Asked("adzuna")
    /\ result.frame.rows # <<>>

\* s <= t in the plain lexicographic order of the characters
LexLeq(s, t) ==
    \/ s = t
    \/ \E n \in 0..Len(s) :
            /\ n <= Len(t)
            /\ \A m \in 1..n : s[m] = t[m]
            /\ \/ n = Len(s) /\ n < Len(t)
               \/ n < Len(s) /\ n < Len(t) /\ Ord(s[n + 1]) < Ord(t[n + 1])

\* C19: the rows the normaliser returns are in descending order of the raw Date Posted
\* string, compared lexicographically, and carry the row index 0..n-1 with no gap left
\* by the duplicates removed.
C19_SortedDescendingDenseIndex ==
    (CleanReturned /\ logs = <<>> /\ handed # <<>>) =>
        LET rows == result.frame.rows
        IN  /\ \A i, j \in 1..Len(rows) :
                    i < j => LexLeq(rows[j]["Date Posted"], rows[i]["Date Posted"])
            /\ result.frame.index = [i \in 1..Len(rows) |-> i - 1]
            /\ Len(rows) = Cardinality({<<handed[k]["Job Title"], handed[k]["Company"]>> :
                                            k \in 1..Len(handed)})

\* C19's case: the input is in ascending date order and holds a duplicate between two
\* records that are kept, so the rows are reversed and the index closes a gap
C19_Witness ==
    /\ CleanReturned /\ logs = <<>>
    /\ Len(handed) = 3 /\ Len(result.frame.rows) = 2
    /\ SamePair(handed[1], handed[2]) /\ ~SamePair(handed[1], handed[3])
    /\ result.frame.rows = <<handed[3], handed[1]>>
    /\ result.frame.index = <<0, 1>>

\* C20: given an empty list of records the normaliser returns a table with the eight
\* canonical columns and no rows.
C20_EmptyInputWellFormed ==
    (CleanReturned /\ logs = <<>> /\ handed = <<>>)
        => result.frame.columns = JobKeys /\ result.frame.rows = <<>>

SampleReturned == pc = "returned" /\ call.op = "_generate_sample_jobs"

\* C21: the sample generator returns exactly min(count, 20) records for every count
\* >= 0; the Job Type of every record is the caller's job_type when one is given and is
\* not "Any", and otherwise one of Full-time, Part-time, Contract and Internship.
C21_SampleSizeAndJobType ==
    SampleReturned =>
        /\ Len(sampled) = (IF call.results_wanted < 20 THEN call.results_wanted ELSE 20)
        /\ \A i \in 1..Len(sampled) :
                IF call.job_type \notin {NONE, <<>>, <<"Any">>}
                THEN sampled[i]["Job Type"] = call.job_type
                ELSE sampled[i]["Job Type"] \in
                        {<<"Full-time">>, <<"Part-time">>, <<"Contract">>, <<"Internship">>}

\* C21's case: a count above the limit with a filter given
C21_Witness ==
    /\ SampleReturned
    /\ call.results_wanted = 21
    /\ call.job_type = <<"Contract">>
    /\ Len(sampled) = 20
    /\ sampled[20]["Job Type"] = <<"Contract">>

\* C21's other case: the filter "Any" and job types drawn at random
C21_WitnessAny ==
    /\ SampleReturned
    /\ call.job_type = <<"Any">>
    /\ Len(sampled) = 2
    /\ sampled[1]["Job Type"] # sampled[2]["Job Type"]

\* the names of job boards and sites that real postings come from
RealSiteLabels == {<<"LinkedIn">>, <<"Indeed">>, <<"ZipRecruiter">>, <<"Company Website">>}

\* C22: every record of the sample generator carries a Source label that marks it as
\* sample data: never the label of a provider, and a label reserved for synthetic data,
\* not the name of a site that real postings come from.
C22_SampleSourceMarked ==
    (SearchReturned /\ NonBlank(call.search_term) /\ NoPlaceholder /\ NoFault) =>
        \A i \in 1..Len(result.frame.rows) :
            (\E k \in 1..Len(sampled) : sampled[k] = result.frame.rows[i]) =>
                /\ result.frame.rows[i]["Source"] \notin ProviderSources
                /\ result.frame.rows[i]["Source"] \notin RealSiteLabels

\* the part of C22 that holds: no sample record carries a provider's label
C22_NeverProviderLabel ==
    SearchReturned =>
        \A k \in 1..Len(sampled) : sampled[k]["Source"] \notin ProviderSources

\* C24: in the list handed to the normaliser every JSearch record comes before every
\* Adzuna record, so of a JSearch record and an Adzuna record with the same (Job Title,
\* Company) pair the table returned keeps the JSearch record and drops the Adzuna one.
C24_JSearchBeforeAdzuna ==
    (SearchReturned /\ NoFault) =>
        /\ \A i, j \in 1..Len(handed) :
                (handed[i]["Source"] = <<"JSearch API">> /\ handed[j]["Source"] = <<"Adzuna API">>)
                    => i < j
        /\ \A i, j \in 1..Len(handed) :
                (/\ handed[i]["Source"] = <<"JSearch API">>
                 /\ handed[j]["Source"] = <<"Adzuna API">>
                 /\ SamePair(handed[i], handed[j]))
                    => \A r \in 1..Len(result.frame.rows) :
                            SamePair(result.frame.rows[r], handed[i])
                                => result.frame.rows[r]["Source"] = <<"JSearch API">>
        /\ \A i \in 1..Len(handed) :
                \E r \in 1..Len(result.frame.rows) : SamePair(result.frame.rows[r], handed[i])

\* C24's case: both providers gave a record for the same pair and Adzuna another one;
\* the table holds the JSearch record of the pair and the other Adzuna record
C24_Witness ==
    /\ SearchReturned /\ NoFault
    /\ \E i, j \in 1..Len(handed) :
            /\ handed[i]["Source"] = <<"JSearch API">>
            /\ handed[j]["Source"] = <<"Adzuna API">>
            /\ SamePair(handed[i], handed[j])
    /\ Len(result.frame.rows) = 2
    /\ FromSource(result.frame.rows, "JSearch API")
    /\ FromSource(result.frame.rows, "Adzuna API")

RecommendationsReturned == pc = "returned" /\ call.op = "get_job_recommendations"

\* C23: when the completion call raises, extract_skills_from_resume and
\* get_job_recommendations each return the empty list and the exception does not leave
\* the function; when the call succeeds get_job_recommendations returns at most 5 entries.
C23_EmptyOnFailureAtMostFive ==
    /\ (SkillsReturned /\ call.completion.kind = "raise")
            => result.skills = <<>> /\ ~result.raised
    /\ (RecommendationsReturned /\ call.completion.kind = "raise")
            => result.recommendations = <<>> /\ ~result.raised
    /\ (RecommendationsReturned /\ call.completion.kind = "ok")
            => Len(result.recommendations) <= 5

\* C23's case: a response with more than 5 recommendation lines, cut to 5
C23_Witness ==
    /\ RecommendationsReturned /\ HasContent
    /\ Cardinality({i \in 1..Len(call.completion.content) :
                        call.completion.content[i] = "-"}) > 5
    /\ Len(result.recommendations) = 5

\* C23's other case: the completion call of get_job_recommendations raised
C23_WitnessRaised ==
    /\ RecommendationsReturned /\ call.completion.kind = "raise"
    /\ Logged("Error generating recommendations")
    /\ result.recommendations = <<>>

LettersReturned == pc = "returned" /\ call.op = "generate_cover_letter_batch"

\* C30: generate_cover_letter_batch returns one cover letter per job offer: for a list
\* of n job offers the dictionary returned has n entries, also when two offers carry the
\* same title; an offer with a blank description gets the job-offer-required error string
\* as its entry and no completion is requested for it.
C30_OneLetterPerOffer ==
    LettersReturned =>
        /\ Len(result.letters) = Len(call.job_offers)
        /\ NonBlank(call.resume_text) =>
                \A n \in 1..Len(call.job_offers) :
                    ~NonBlank(OfferOf(call.job_offers[n])) =>
                        /\ \E i \in 1..Len(result.letters) :
                                /\ result.letters[i].key = TitleOf(call.job_offers[n], n)
                                /\ result.letters[i].value = OFFER_REQUIRED
                        /\ \A i \in 1..Len(llm_log) :
                                llm_log[i].job_offer # OfferOf(call.job_offers[n])

\* what holds of the batch: an entry per distinct title and never more entries than
\* offers; a blank description makes no completion request
C30_OneLetterPerTitle ==
    LettersReturned =>
        /\ Len(result.letters) =
                Cardinality({TitleOf(call.job_offers[n], n) : n \in 1..Len(call.job_offers)})
        /\ \A i \in 1..Len(llm_log) : NonBlank(llm_log[i].job_offer)

\* the chat with the given id
ChatOf(chats, chat_id) == chats[IndexOf(chats, chat_id)]

\* C28's first part: current_chat_id is None or the id of a chat of all_chats
C28_CurrentChatKnown ==
    current_chat_id = NONE \/ HasChat(all_chats, current_chat_id)

\* the loop is about to listen: an interview is started and the script runs again
Listening == Pending /\ interview_started /\ current_chat_id # NONE

\* the histories of the current chat that hold an entry of the given role
HasEntry(history, role) == \E i \in 1..Len(history) : history[i].role = role

\* C25: while an interview is started the hands-free loop always returns to
\* listening: after every listen attempt, whether it heard speech, ended in an error or
\* heard nothing, the script runs again and the next run listens; the loop leaves
\* listening only with interview_started false, and interview_started becomes false
\* only by End Interview, a chat switch, a clear, a delete or a new chat.
C25_LoopReturnsToListening ==
    /\ [](Listening => ENABLED ListenCycle)
    /\ [][ListenCycle => (Listening' /\ run' = "listening" /\ heard' \in {"text", "error", "silence"})]_vars
    /\ [][(Listening /\ ~Listening') => ~interview_started']_vars
    /\ [][(interview_started /\ ~interview_started')
            => (EndInterview \/ SelectChat \/ ClearCurrentChat \/ DeleteChat \/ NewChat)]_vars

\* C25's case: the loop heard an answer, then an attempt ended in an error, and the
\* loop is listening again
C25_Witness ==
    /\ Listening /\ run = "listening"
    /\ heard = "error"
    /\ HasEntry(CurrentChat.history, "candidate")

\* t is s with entries added at its end, or s itself
IsPrefix(s, t) == Len(s) <= Len(t) /\ SubSeq(t, 1, Len(s)) = s

\* the history of the i-th chat is kept by the step: the chat is still there and
\* its history is the old one, possibly with entries added at its end
HistoryKept(i) ==
    HasChat(all_chats', all_chats[i].id)
        => IsPrefix(all_chats[i].history, ChatOf(all_chats', all_chats[i].id).history)

\* C26 as claimed: each chat's transcript is append-only for as long as the chat
\* exists: no step removes or rewrites an entry already in a chat's history.
C26_HistoryAppendOnly ==
    [][\A i \in 1..Len(all_chats) : HistoryKept(i)]_vars

\* C26 as amended: a step only adds entries at the end of a chat's history, except
\* that Clear Current Chat empties the history of the current chat and that New Chat
\* or Start New Interview, in the second in which an existing chat was created, puts
\* an empty chat in its place.
C26_AppendOnlyUnlessCleared ==
    [][\A i \in 1..Len(all_chats) :
          \/ HistoryKept(i)
          \/ /\ ClearCurrentChat
             /\ all_chats[i].id = current_chat_id
             /\ ChatOf(all_chats', all_chats[i].id).history = <<>>
          \/ /\ NewChat \/ StartNewInterview
             /\ all_chats[i].id = ChatId(now)
             /\ ChatOf(all_chats', all_chats[i].id).history = <<>>]_vars

\* C26's case: a history that grew by a listen cycle after the opening question, in
\* a session where another chat was started and then cleared
C26_Witness ==
    /\ current_chat_id # NONE
    /\ Len(CurrentChat.history) >= 3
    /\ CurrentChat.history[1].role = "interviewer"
    /\ CurrentChat.history[2].role = "candidate"
    /\ \E i \in 1..Len(all_chats) :
            /\ all_chats[i].history = <<>>
            /\ all_chats[i].title = <<"Technical Interview">>

\* the step creates a chat: New Chat, Start New Interview or the default chat
Creates == NewChat \/ StartNewInterview \/ DefaultChat

\* C27: creating a chat (New Chat, Start New Interview or the default chat) always
\* adds an entry to all_chats and never replaces an existing chat or loses its history,
\* whatever the times of the creations, two creations in the same second included.
C27_CreationAddsChat ==
    [][Creates =>
          /\ Len(all_chats') = Len(all_chats) + 1
          /\ \A i \in 1..Len(all_chats) : all_chats'[i] = all_chats[i]]_vars

\* what holds of a creation: the chats with another id than the new one are kept as
\* they are, and the new chat is the current one and empty
C27_CreationKeepsOtherIds ==
    [][Creates =>
          /\ \A i \in 1..Len(all_chats) :
                all_chats[i].id # ChatId(now) => all_chats'[i] = all_chats[i]
          /\ current_chat_id' = ChatId(now)
          /\ ChatOf(all_chats', ChatId(now)).history = <<>>]_vars

\* the ids of the chats
IdSet(chats) == {chats[i].id : i \in 1..Len(chats)}

\* the id of the chat created last among the given chats
MostRecent(chats) ==
    (CHOOSE c \in Range(chats) : \A e \in Range(chats) : e.created_at <= c.created_at).id

\* C28: current_chat_id is always None or the id of a chat of all_chats; deleting the
\* current chat moves current_chat_id to the most recently created remaining chat, or to
\* None when no chat remains, and deleting another chat leaves current_chat_id unchanged.
C28_CurrentChatFollowsDeletes ==
    /\ []C28_CurrentChatKnown
    /\ [][DeleteChat =>
            /\ Cardinality(IdSet(all_chats) \ IdSet(all_chats')) = 1
            /\ IF current_chat_id \in IdSet(all_chats')
               THEN current_chat_id' = current_chat_id
               ELSE IF all_chats' = <<>> THEN current_chat_id' = NONE
               ELSE current_chat_id' = MostRecent(all_chats')]_vars

\* C28's case: of three chats the second was deleted, and the current chat is the
\* one created last of the two that remain
C28_Witness ==
    /\ Len(all_chats) = 2
    /\ all_chats[1].title = <<"Interview ", "1">>
    /\ all_chats[2].title = <<"Interview ", "3">>
    /\ all_chats[1].created_at < all_chats[2].created_at
    /\ current_chat_id = all_chats[2].id
    /\ run = "rerun" /\ ~interview_started

\* C28's other case: the only chat was deleted and no chat is current
C28_WitnessNone ==
    /\ all_chats = <<>> /\ current_chat_id = NONE /\ now > 1

\* the number of entries of a role in a history
NumRole(history, role) == Cardinality({i \in 1..Len(history) : history[i].role = role})

\* the step adds a summary entry to the history of some chat
SummaryAdded ==
    \E i \in 1..Len(all_chats) :
        /\ HasChat(all_chats', all_chats[i].id)
        /\ NumRole(ChatOf(all_chats', all_chats[i].id).history, "summary")
                > NumRole(all_chats[i].history, "summary")

\* the step adds a candidate entry and then an interviewer entry at the end of the
\* current chat's history and changes nothing else of the chats
TurnAdded ==
    \E answer, reply \in Range(CurrentChat'.history) :
        /\ answer.role = "candidate" /\ reply.role = "interviewer"
        /\ all_chats' = [all_chats EXCEPT ![IndexOf(all_chats, current_chat_id)].history =
                            CurrentChat.history \o <<answer, reply>>]

\* C29: in every chat history every candidate entry is immediately followed by an
\* interviewer entry; a listen cycle appends nothing or exactly one candidate entry
\* followed by one interviewer entry, also when the completion call fails; a summary
\* entry is appended only by End Interview and only to a history of more than 2 entries.
C29_TurnsAndSummary ==
    /\ [](\A c \in 1..Len(all_chats) : \A i \in 1..Len(all_chats[c].history) :
            all_chats[c].history[i].role = "candidate"
                => /\ i < Len(all_chats[c].history)
                   /\ all_chats[c].history[i + 1].role = "interviewer")
    /\ [][ListenCycle =>
            IF heard' = "text" THEN TurnAdded ELSE all_chats' = all_chats]_vars
    /\ [][SummaryAdded =>
            /\ EndInterview
            /\ Len(CurrentChat.history) > 2
            /\ CurrentChat'.history =
                    Append(CurrentChat.history, CurrentChat'.history[Len(CurrentChat'.history)])]_vars

\* C29's case: an answer whose completion call failed is followed by the apology as
\* the interviewer's entry, and the interview was ended with a summary
C29_Witness ==
    /\ current_chat_id # NONE
    /\ Len(CurrentChat.history) = 4
    /\ CurrentChat.history[2].role = "candidate"
    /\ CurrentChat.history[3] = Entry("interviewer", SORRY)
    /\ CurrentChat.history[4].role = "summary"
    /\ ~interview_started
====
